---- MODULE Spec2Model ----
(***************************************************************************)
(* git-visible: the commit collection engine (internal/stats/collector.go) *)
(* and its cache store (internal/cache/cache.go).                          *)
(*                                                                         *)
(* Repositories are modelled as a commit store (hash = position in the     *)
(* store), local branch references and a symbolic HEAD.  Time is counted   *)
(* in half days; a location is an offset in half days (0 = UTC, 1 =       *)
(* UTC+12), so that the same instant can fall on two different calendar    *)
(* days.  Day keys are the yyyymmdd integers of the source.                *)
(***************************************************************************)
EXTENDS Integers, Sequences, FiniteSets, TLC

VARIABLES
    repos,      \* path -> repository on disk
    cache,      \* cache directory: file name -> file content
    walk,       \* last direct invocation of the per-repository walker
    query,      \* the caller's query: repositories, identities, window, scope
    call,       \* the orchestrator call in progress (or NoCall)
    pc,         \* per task: position of the task goroutine
    local,      \* per task: locals of collectRepo / collectRepoByEmails
    out,        \* result structure filled by the aggregator
    done,       \* paths of the repositories whose result was merged
    errs,       \* shared error list
    hist,       \* observations of the call in progress (walker runs, cache traffic)
    prev,       \* outcome of the previous orchestrator call
    nq,         \* number of orchestrator calls issued so far
    eval        \* last direct invocation of a function: arguments and result

vars == <<repos, cache, walk, query, call, pc, local, out, done, errs, hist, prev, nq, eval>>

----------------------------------------------------------------------------
(* Bounds *)

MaxCommits == 3
MaxCalls == 2
MaxHistory == 2
MaxSaves == 2
MaxSavers == 2

----------------------------------------------------------------------------
(* Small helpers *)

Range(s) == {s[i] : i \in 1..Len(s)}

RECURSIVE SetToSeqs(_)
SetToSeqs(S) ==
    IF S = {} THEN {<<>>}
    ELSE UNION {{<<x>> \o t : t \in SetToSeqs(S \ {x})} : x \in S}

RECURSIVE SumOver(_, _)
SumOver(f, S) ==
    IF S = {} THEN 0
    ELSE LET x == CHOOSE y \in S : TRUE IN f[x] + SumOver(f, S \ {x})

EmptyMap == <<>>

Get(m, k) == IF k \in DOMAIN m THEN m[k] ELSE 0

\* Go: m[k]++ / m[k] += n on a map[int]int
AddTo(m, k, n) ==
    IF k \in DOMAIN m THEN [m EXCEPT ![k] = @ + n] ELSE m @@ (k :> n)

----------------------------------------------------------------------------
(* Time: instants, locations, day keys *)

Calendar == <<20240130, 20240131, 20240201, 20240202, 20240203>>

CalIdx(k) == CHOOSE i \in 1..Len(Calendar) : Calendar[i] = k

ZeroTime == 0

\* t.In(loc) followed by Year/Month/Day: the local calendar day of an instant
LocalDay(t, loc) == (t + loc) \div 2

dayKeyFromTime(t, loc) == Calendar[LocalDay(t, loc)]

beginningOfDay(t, loc) == 2 * LocalDay(t, loc) - loc

dayKeyToTime(dayKey, loc) == 2 * CalIdx(dayKey) - loc

\* a date written year, day, month
dayKeyToDateString_DayFirst(dayKey) ==
    <<dayKey \div 10000, dayKey % 100, (dayKey \div 100) % 100>>

\* Format("2006-01-02") of the UTC midnight of the day key: year, month, day fields
dayKeyToDateString(dayKey) ==
    LET t == dayKeyToTime(dayKey, 0)
        k == dayKeyFromTime(t, 0)
    IN <<k \div 10000, (k \div 100) % 100, k % 100>>

BadDate == <<"not-a-date">>

\* time.Parse("2006-01-02", ...) then dayKeyFromTime(t, UTC); err when the
\* string is not a date
dateStringToDayKey(day) ==
    IF Len(day) = 3 /\ (day[1] * 10000 + day[2] * 100 + day[3]) \in Range(Calendar)
    THEN [err |-> FALSE, dayKey |-> day[1] * 10000 + day[2] * 100 + day[3]]
    ELSE [err |-> TRUE, dayKey |-> 0]

----------------------------------------------------------------------------
(* Repositories: commit store, branch references, symbolic HEAD *)

BranchNames == {"main", "dev"}

NoHash == 0

\* kind: "ok" | "missing" (os.Stat fails) | "notgit" (git.PlainOpen fails) |
\* "corrupt" (opens, but iterating its commits fails on an unreadable object)
EmptyRepo ==
    [kind |-> "ok", commits |-> <<>>, branches |-> [b \in BranchNames |-> NoHash],
     head |-> "main"]

Tip(r, b) == IF b \in BranchNames THEN r.branches[b] ELSE NoHash

\* repo.Head(): HEAD is a symbolic reference; it resolves only if its branch exists
HeadHash(r) == Tip(r, r.head)

Parents(r, h) == r.commits[h].parents

RECURSIVE Ancestors(_, _)
Ancestors(r, H) ==
    LET next == H \cup UNION {Range(Parents(r, h)) : h \in H}
    IN IF next = H THEN H ELSE Ancestors(r, next)

\* every commit reachable from a set of tips
Reach(r, tips) == Ancestors(r, tips \ {NoHash})

----------------------------------------------------------------------------
(* Text: the strings of the model and the library functions applied to them *)

\* strings.TrimSpace on the strings of the model
TrimSpace(s) ==
    CASE s = " a@x " -> "a@x"
      [] s = " A@X " -> "A@X"
      [] s = " c@x " -> "c@x"
      [] s = " dev " -> "dev"
      [] s = " r1 " -> "r1"
      [] s = " " -> ""
      [] OTHER -> s

\* lower-casing, as strings.EqualFold compares
Lower(s) ==
    CASE s = "A@X" -> "a@x"
      [] OTHER -> s

EqualFold(s, t) == Lower(s) = Lower(t)

\* sort.Strings order of the identities and the paths of the model
Rank(s) ==
    CASE s = " a@x " -> 1
      [] s = "A@X" -> 2
      [] s = "a@x" -> 3
      [] s = "b@x" -> 4
      [] s = "c@x" -> 5
      [] s = "r1" -> 7
      [] s = "r2" -> 8
      [] s = "r3" -> 9
      [] OTHER -> 6

RECURSIVE SortStrings(_)
SortStrings(S) ==
    IF S = {} THEN <<>>
    ELSE LET m == CHOOSE x \in S : \A y \in S : Rank(x) <= Rank(y)
         IN <<m>> \o SortStrings(S \ {m})

----------------------------------------------------------------------------
(* Identity normalizer: Config.NormalizeEmail over an alias table.          *)
(* An alias table is a sequence of groups, a group a sequence of emails;    *)
(* the empty table stands for a nil function or a configuration without     *)
(* aliases, which both return the input.                                    *)

\* a lookup that compares the members byte by byte
RECURSIVE MatchGroup_CaseSensitive(_, _, _)
MatchGroup_CaseSensitive(aliases, i, target) ==
    IF i > Len(aliases) THEN 0
    ELSE IF \E j \in 1..Len(aliases[i]) : target = TrimSpace(aliases[i][j])
         THEN i
         ELSE MatchGroup_CaseSensitive(aliases, i + 1, target)

RECURSIVE MatchGroup(_, _, _)
MatchGroup(aliases, i, target) ==
    IF i > Len(aliases) THEN 0
    ELSE IF \E j \in 1..Len(aliases[i]) : EqualFold(target, TrimSpace(aliases[i][j]))
         THEN i
         ELSE MatchGroup(aliases, i + 1, target)

NormalizeEmail(aliases, email) ==
    IF Len(aliases) = 0 THEN email
    ELSE LET target == TrimSpace(email)
             g == MatchGroup(aliases, 1, target)
         IN IF target = "" THEN email
            ELSE IF g # 0 THEN TrimSpace(aliases[g][1])
            ELSE email

resolveNormalizeEmail(normalizeEmail, email) == NormalizeEmail(normalizeEmail, email)

----------------------------------------------------------------------------
(* The commit iterator of repo.Log(From: h): pre-order over the parents,    *)
(* every commit yielded once.                                               *)

RECURSIVE PreorderNext(_, _, _, _)
PreorderNext(r, stack, seen, acc) ==
    IF stack = <<>> THEN acc
    ELSE LET top == stack[Len(stack)]
             rest == SubSeq(stack, 1, Len(stack) - 1)
         IN IF top = <<>> THEN PreorderNext(r, rest, seen, acc)
            ELSE LET c == Head(top)
                     popped == Append(rest, Tail(top))
                 IN IF c \in seen THEN PreorderNext(r, popped, seen, acc)
                    ELSE LET seen2 == seen \cup {c}
                             ps == SelectSeq(Parents(r, c), LAMBDA h : h \notin seen2)
                         IN PreorderNext(r,
                                IF Len(Parents(r, c)) > 0 THEN Append(popped, ps) ELSE popped,
                                seen2, Append(acc, c))

\* the commits in the order the iterator yields them
LogFrom(r, from) == PreorderNext(r, <<(<<from>>)>>, {}, <<>>)

----------------------------------------------------------------------------
(* Start points *)

NoBranch == [Branch |-> "", AllBranches |-> FALSE]

Err(kind, path) == [kind |-> kind, path |-> path]

NoErr == [kind |-> "", path |-> ""]

\* for AllBranches: the branch references in the order `order` lists them,
\* absent branches left out, duplicate tips dropped (seenTips)
RECURSIVE DedupTips(_, _, _, _)
DedupTips(r, order, i, tips) ==
    IF i > Len(order) THEN tips
    ELSE LET h == Tip(r, order[i])
         IN DedupTips(r, order, i + 1,
                IF h = NoHash \/ h \in Range(tips) THEN tips ELSE Append(tips, h))

collectStartPoints(r, repoPath, branch, order) ==
    IF branch.AllBranches
    THEN [err |-> NoErr, tips |-> DedupTips(r, order, 1, <<>>)]
    ELSE IF branch.Branch # ""
    THEN IF Tip(r, branch.Branch) = NoHash
         THEN [err |-> Err("branch not found", repoPath), tips |-> <<>>]
         ELSE [err |-> NoErr, tips |-> <<Tip(r, branch.Branch)>>]
    ELSE IF HeadHash(r) = NoHash
         THEN [err |-> Err("head", repoPath), tips |-> <<>>]
         ELSE [err |-> NoErr, tips |-> <<HeadHash(r)>>]

----------------------------------------------------------------------------
(* The walker *)

\* the callback with the early stop on a commit dated before Since
WalkCallback_StopBeforeSince(r, c, st, startDayKey, endDayKey, loc, emailSet, branch, normalizeEmail) ==
    IF branch.AllBranches /\ c \in st.seenCommits
    THEN [st EXCEPT !.stop = TRUE]
    ELSE LET st1 == IF branch.AllBranches
                    THEN [st EXCEPT !.seenCommits = @ \cup {c}]
                    ELSE st
             email == resolveNormalizeEmail(normalizeEmail, r.commits[c].email)
             commitDayKey == dayKeyFromTime(r.commits[c].when, loc)
         IN IF emailSet # {} /\ email \notin emailSet THEN st1
            ELSE IF commitDayKey > endDayKey THEN st1
            ELSE IF commitDayKey < startDayKey THEN [st1 EXCEPT !.stop = TRUE]
            ELSE [st1 EXCEPT !.visits =
                      Append(@, [hash |-> c, email |-> email, dayKey |-> commitDayKey])]

\* the callback without the test against the end day
WalkCallback_NoUntilCheck(r, c, st, startDayKey, endDayKey, loc, emailSet, branch, normalizeEmail) ==
    IF branch.AllBranches /\ c \in st.seenCommits
    THEN [st EXCEPT !.stop = TRUE]
    ELSE LET st1 == IF branch.AllBranches
                    THEN [st EXCEPT !.seenCommits = @ \cup {c}]
                    ELSE st
             email == resolveNormalizeEmail(normalizeEmail, r.commits[c].email)
             commitDayKey == dayKeyFromTime(r.commits[c].when, loc)
         IN IF emailSet # {} /\ email \notin emailSet THEN st1
            ELSE IF commitDayKey < startDayKey THEN st1
            ELSE [st1 EXCEPT !.visits =
                      Append(@, [hash |-> c, email |-> email, dayKey |-> commitDayKey])]

\* the callback of iterator.ForEach on commit c; st = [seenCommits, visits, stop]
WalkCallback(r, c, st, startDayKey, endDayKey, loc, emailSet, branch, normalizeEmail) ==
    IF branch.AllBranches /\ c \in st.seenCommits
    THEN [st EXCEPT !.stop = TRUE]
    ELSE LET st1 == IF branch.AllBranches
                    THEN [st EXCEPT !.seenCommits = @ \cup {c}]
                    ELSE st
             email == resolveNormalizeEmail(normalizeEmail, r.commits[c].email)
             commitDayKey == dayKeyFromTime(r.commits[c].when, loc)
         IN IF emailSet # {} /\ email \notin emailSet THEN st1
            ELSE IF commitDayKey > endDayKey THEN st1
            ELSE IF commitDayKey < startDayKey THEN st1
            ELSE [st1 EXCEPT !.visits =
                      Append(@, [hash |-> c, email |-> email, dayKey |-> commitDayKey])]

RECURSIVE ForEach(_, _, _, _, _, _, _, _, _, _)
ForEach(r, yield, i, st, startDayKey, endDayKey, loc, emailSet, branch, normalizeEmail) ==
    IF i > Len(yield) THEN st
    ELSE LET st1 == WalkCallback(r, yield[i], st, startDayKey, endDayKey, loc,
                                 emailSet, branch, normalizeEmail)
         IN IF st1.stop THEN [st1 EXCEPT !.stop = FALSE]
            ELSE ForEach(r, yield, i + 1, st1, startDayKey, endDayKey, loc,
                         emailSet, branch, normalizeEmail)

RECURSIVE WalkFrom(_, _, _, _, _, _, _, _, _, _)
WalkFrom(r, startPoints, i, st, startDayKey, endDayKey, loc, emailSet, branch, normalizeEmail) ==
    IF i > Len(startPoints) THEN st
    ELSE WalkFrom(r, startPoints, i + 1,
             ForEach(r, LogFrom(r, startPoints[i]), 1, st, startDayKey, endDayKey, loc,
                     emailSet, branch, normalizeEmail),
             startDayKey, endDayKey, loc, emailSet, branch, normalizeEmail)

\* returns the error and the sequence of visitor(email, dayKey) calls
walkRepoCommits(r, repoPath, startDayKey, endDayKey, loc, emailSet, branch, normalizeEmail, order) ==
    LET sp == collectStartPoints(r, repoPath, branch, order)
    IN IF sp.err # NoErr THEN [err |-> sp.err, visits |-> <<>>]
       ELSE IF r.kind = "corrupt" /\ Len(sp.tips) > 0
       THEN [err |-> Err("iterate repo", repoPath), visits |-> <<>>]
       ELSE [err |-> NoErr,
             visits |-> WalkFrom(r, sp.tips, 1,
                            [seenCommits |-> {}, visits |-> <<>>, stop |-> FALSE],
                            startDayKey, endDayKey, loc, emailSet, branch,
                            normalizeEmail).visits]

RECURSIVE CountByDay(_, _, _)
CountByDay(visits, i, m) ==
    IF i > Len(visits) THEN m
    ELSE CountByDay(visits, i + 1, AddTo(m, visits[i].dayKey, 1))

RECURSIVE CountByEmail(_, _, _)
CountByEmail(visits, i, m) ==
    IF i > Len(visits) THEN m
    ELSE LET e == visits[i].email
             daily == IF e \in DOMAIN m THEN m[e] ELSE EmptyMap
             daily2 == AddTo(daily, visits[i].dayKey, 1)
         IN CountByEmail(visits, i + 1,
                IF e \in DOMAIN m THEN [m EXCEPT ![e] = daily2] ELSE m @@ (e :> daily2))

\* [err, stats: dayKey -> count, counted: the hashes passed to the visitor]
collectRepoFromRepository(r, repoPath, startDayKey, endDayKey, loc, emailSet, branch, normalizeEmail, order) ==
    LET w == walkRepoCommits(r, repoPath, startDayKey, endDayKey, loc, emailSet,
                             branch, normalizeEmail, order)
    IN [err |-> w.err,
        stats |-> CountByDay(w.visits, 1, EmptyMap),
        counted |-> [i \in 1..Len(w.visits) |-> w.visits[i].hash]]

\* [err, stats: email -> dayKey -> count]
collectRepoByEmailsFromRepository(r, repoPath, startDayKey, endDayKey, loc, emailSet, branch, normalizeEmail, order) ==
    LET w == walkRepoCommits(r, repoPath, startDayKey, endDayKey, loc, emailSet,
                             branch, normalizeEmail, order)
    IN [err |-> w.err,
        stats |-> CountByEmail(w.visits, 1, EmptyMap),
        counted |-> [i \in 1..Len(w.visits) |-> w.visits[i].hash]]

----------------------------------------------------------------------------
(* The environment: histories grow by commits, merges and branch updates *)

NoWalk == [on |-> FALSE]

NoCall == [on |-> FALSE]

NoEval == [on |-> FALSE]

NoPrev == [on |-> FALSE]

\* an orchestrator call has spawned its tasks and has not returned
Running == call.on /\ call.phase = "running"

NewCommit(ps, email, when) == [parents |-> ps, email |-> email, when |-> when]

\* a new commit becomes the tip of branch b (a commit on the checked-out
\* branch, or a fetch into another branch)
GitCommit(p, b, email, when) ==
    /\ ~Running
    /\ repos[p].kind = "ok"
    /\ Len(repos[p].commits) < MaxCommits
    /\ LET r == repos[p]
           ps == IF Tip(r, b) = NoHash THEN <<>> ELSE <<Tip(r, b)>>
           h == Len(r.commits) + 1
       IN repos' = [repos EXCEPT ![p] =
                        [r EXCEPT !.commits = Append(@, NewCommit(ps, email, when)),
                                  !.branches[b] = h]]
    /\ walk' = NoWalk
    /\ UNCHANGED <<cache, query, call, pc, local, out, done, errs, hist, prev, nq, eval>>

\* branch o is merged into branch b by a merge commit with parents (tip b, tip o)
GitMerge(p, b, o, email, when) ==
    /\ ~Running
    /\ repos[p].kind = "ok"
    /\ Len(repos[p].commits) < MaxCommits
    /\ b # o
    /\ LET r == repos[p]
       IN /\ Tip(r, b) # NoHash
          /\ Tip(r, o) # NoHash
          /\ Tip(r, o) \notin Reach(r, {Tip(r, b)})
          /\ repos' = [repos EXCEPT ![p] =
                        [r EXCEPT !.commits =
                                      Append(@, NewCommit(<<Tip(r, b), Tip(r, o)>>, email, when)),
                                  !.branches[b] = Len(r.commits) + 1]]
    /\ walk' = NoWalk
    /\ UNCHANGED <<cache, query, call, pc, local, out, done, errs, hist, prev, nq, eval>>

\* branch b is created at the tip of branch o (git branch b o)
GitBranch(p, b, o) ==
    /\ ~Running
    /\ repos[p].kind = "ok"
    /\ b # o
    /\ Tip(repos[p], o) # NoHash
    /\ Tip(repos[p], b) = NoHash
    /\ repos' = [repos EXCEPT ![p].branches[b] = Tip(repos[p], o)]
    /\ walk' = NoWalk
    /\ UNCHANGED <<cache, query, call, pc, local, out, done, errs, hist, prev, nq, eval>>

\* branch b is moved back to one of its ancestors h (git reset --hard h)
GitReset(p, b, h) ==
    /\ ~Running
    /\ repos[p].kind = "ok"
    /\ Tip(repos[p], b) # NoHash
    /\ h \in Reach(repos[p], {Tip(repos[p], b)}) \ {Tip(repos[p], b)}
    /\ repos' = [repos EXCEPT ![p].branches[b] = h]
    /\ walk' = NoWalk
    /\ UNCHANGED <<cache, query, call, pc, local, out, done, errs, hist, prev, nq, eval>>

----------------------------------------------------------------------------
(* Specification SpecWalk: one repository, the walker invoked directly      *)
(* (collectRepoFromRepository, as the tests of the walker do)               *)

WalkPaths == {"r1"}

\* (author, author time) of the commits
WalkAuthorships == {<<"a@x", 4>>, <<"a@x", 6>>, <<"a@x", 8>>, <<"b@x", 6>>}

WalkWindows == {<<20240201, 20240201>>}

WalkScopes == {NoBranch, [Branch |-> "", AllBranches |-> TRUE]}

WalkEmailSets == {{}, {"a@x"}}

BranchOrders == SetToSeqs(BranchNames)

NoQuery == [on |-> FALSE]

InitIdle ==
    /\ cache = <<>>
    /\ walk = NoWalk
    /\ call = NoCall
    /\ pc = <<>>
    /\ local = <<>>
    /\ out = <<>>
    /\ done = <<>>
    /\ errs = <<>>
    /\ hist = <<>>
    /\ prev = NoPrev
    /\ nq = 0
    /\ eval = NoEval

InitWalk ==
    /\ repos = [p \in WalkPaths |-> EmptyRepo]
    /\ query = NoQuery
    /\ InitIdle

WalkRepo(p, win, loc, emailSet, branch, normalizeEmail, order) ==
    /\ ~walk.on
    /\ (~branch.AllBranches => order = <<"dev", "main">>)
    /\ repos[p].kind = "ok"
    /\ walk' = [on |-> TRUE, path |-> p, startDayKey |-> win[1], endDayKey |-> win[2],
                loc |-> loc, emailSet |-> emailSet, branch |-> branch,
                normalizeEmail |-> normalizeEmail, order |-> order,
                res |-> collectRepoFromRepository(repos[p], p, win[1], win[2], loc,
                                                  emailSet, branch, normalizeEmail, order)]
    /\ UNCHANGED <<repos, cache, query, call, pc, local, out, done, errs, hist, prev, nq, eval>>

NextWalk ==
    \/ \E p \in WalkPaths, b \in BranchNames, a \in WalkAuthorships :
           GitCommit(p, b, a[1], a[2])
    \/ \E p \in WalkPaths, b \in BranchNames, o \in BranchNames, a \in WalkAuthorships :
           GitMerge(p, b, o, a[1], a[2])
    \/ \E p \in WalkPaths, b \in BranchNames, o \in BranchNames :
           GitBranch(p, b, o)
    \/ \E p \in WalkPaths, b \in BranchNames, h \in 1..MaxCommits :
           GitReset(p, b, h)
    \/ \E p \in WalkPaths, win \in WalkWindows, es \in WalkEmailSets, br \in WalkScopes,
          order \in BranchOrders :
           WalkRepo(p, win, 0, es, br, <<>>, order)

SpecWalk == InitWalk /\ [][NextWalk]_vars

----------------------------------------------------------------------------
(* The cache store (internal/cache/cache.go).  The cache directory maps a   *)
(* file name to the file's content.  The file name is a digest of the       *)
(* normalized key; the digest is taken to be collision free, so the name is *)
(* the payload it is computed from.                                         *)

\* filepath.Clean on the paths of the model
CleanPath(s) ==
    CASE s = "r1/" -> "r1"
      [] s = "./r1" -> "r1"
      [] OTHER -> s

\* sort.Strings on a sequence
RECURSIVE SortStringSeq(_)
SortStringSeq(seq) ==
    IF seq = <<>> THEN <<>>
    ELSE LET i == CHOOSE j \in 1..Len(seq) :
                      \A k \in 1..Len(seq) : Rank(seq[j]) <= Rank(seq[k])
         IN <<seq[i]>> \o SortStringSeq(SubSeq(seq, 1, i - 1) \o SubSeq(seq, i + 1, Len(seq)))

\* identities trimmed and cleaned but left in the caller's order
normalizeEmails_NoSort(emails) ==
    SelectSeq([i \in 1..Len(emails) |-> TrimSpace(emails[i])], LAMBDA e : e # "")

\* trims the entries, drops the empty ones and sorts; duplicates are kept
normalizeEmails(emails) ==
    SortStringSeq(SelectSeq([i \in 1..Len(emails) |-> TrimSpace(emails[i])],
                      LAMBDA e : e # ""))

\* every string field is trimmed, the path cleaned, the identities
\* normalized.  A head hash is a number and a time range a pair of dates:
\* the hash h written between blanks is -h, a time range written with a
\* trailing blank has a third component " "
normalizeKey(key) ==
    [key EXCEPT !.RepoPath = CleanPath(TrimSpace(@)),
                !.HEADHash = IF @ < 0 THEN -@ ELSE @,
                !.TimeRange = SubSeq(@, 1, 2),
                !.Branch = TrimSpace(@),
                !.Emails = normalizeEmails(@)]

\* CacheKey.String
CacheKeyString(key) ==
    LET normalized == normalizeKey(key)
    IN <<normalized.RepoPath, normalized.HEADHash, normalized.Emails,
         normalized.TimeRange, normalized.Branch, normalized.AllBranch>>

getCachePath(key) == CacheKeyString(key)

\* what a file of the cache directory can hold besides an entry
Garbage == [garbage |-> TRUE]

LoadFaults == {"none", "unreadable", "invalid json", "bad date key"}

SaveFaults == {"none", "write failed"}

\* a store that never finds a file
LoadCache_NeverFinds(dir, key, fault) == [err |-> "not exist", entry |-> Garbage]

\* LoadCache: the file is read as it is found; `fault` is the condition the
\* environment leaves the file in at that moment (unreadable, not JSON, or an
\* entry one of whose date keys is not a date)
LoadCache(dir, key, fault) ==
    LET cachePath == getCachePath(key)
    IN IF cachePath \notin DOMAIN dir THEN [err |-> "not exist", entry |-> Garbage]
       ELSE IF fault = "unreadable" THEN [err |-> "read", entry |-> Garbage]
       ELSE IF fault = "invalid json" THEN [err |-> "unmarshal", entry |-> Garbage]
       ELSE IF fault = "bad date key"
       THEN [err |-> "",
             entry |-> [dir[cachePath] EXCEPT !.Stats = @ @@ (BadDate :> 1)]]
       ELSE [err |-> "", entry |-> dir[cachePath]]

\* SaveCache: the entry replaces the file by a rename, or nothing is written.
\* `rev` is not part of the file: it records the state of the repository
\* the saved statistics were computed from.
SaveCache(dir, key, stats, fault, rev) ==
    LET cachePath == getCachePath(key)
        entry == [Key |-> normalizeKey(key), Stats |-> stats, rev |-> rev]
    IN IF fault # "none" THEN [err |-> "write", dir |-> dir]
       ELSE [err |-> "",
             dir |-> [f \in DOMAIN dir \cup {cachePath} |->
                         IF f = cachePath THEN entry ELSE dir[f]]]

----------------------------------------------------------------------------
(* Cache keys and the conversion of statistics (collector.go) *)

sortedEmails(emailSet) == SortStrings(emailSet)

buildRepoCacheKey(repoPath, headHash, startDayKey, endDayKey, emailSet, branch) ==
    [RepoPath |-> repoPath,
     HEADHash |-> headHash,
     Emails |-> sortedEmails(emailSet),
     TimeRange |-> <<dayKeyToDateString(startDayKey), dayKeyToDateString(endDayKey)>>,
     Branch |-> branch.Branch,
     AllBranch |-> branch.AllBranches]

toCachedStats(daily) ==
    [day \in {dayKeyToDateString(k) : k \in DOMAIN daily} |->
        daily[CHOOSE k \in DOMAIN daily : dayKeyToDateString(k) = day]]

fromCachedStats(stats) ==
    IF \E day \in DOMAIN stats : dateStringToDayKey(day).err
    THEN [err |-> "parse cache day", daily |-> EmptyMap]
    ELSE [err |-> "",
          daily |-> [k \in {dateStringToDayKey(day).dayKey : day \in DOMAIN stats} |->
                        stats[CHOOSE day \in DOMAIN stats :
                                  dateStringToDayKey(day).dayKey = k]]]

----------------------------------------------------------------------------
(* The orchestrator: validation, one task per repository path, merge.       *)
(* An entry point is "global" (CollectStats), "perRepo"                     *)
(* (CollectStatsPerRepo) or "byEmails" (CollectStatsByEmails).              *)

maxConcurrency == 2

normalizeBranchOption(opt) ==
    LET b == TrimSpace(opt.Branch)
    IN IF b # "" /\ opt.AllBranches
       THEN [err |-> "--branch and --all-branches are mutually exclusive", branch |-> NoBranch]
       ELSE [err |-> "", branch |-> [Branch |-> b, AllBranches |-> opt.AllBranches]]

\* an identity set built from the filter identities as the user gave them
BuildEmailSet_Raw(emails, normalizeEmail) == Range(emails) \ {""}

\* the identity set: empty entries are skipped before and after normalization
BuildEmailSet(emails, normalizeEmail) ==
    {resolveNormalizeEmail(normalizeEmail, e) : e \in {x \in Range(emails) : x # ""}} \ {""}

\* a validation that lets an inverted window through
Prepare_NoOrderCheck(opts, loc) ==
    LET nb == normalizeBranchOption([Branch |-> opts.Branch, AllBranches |-> opts.AllBranch])
        none == [err |-> "", branch |-> NoBranch, startDayKey |-> 0, endDayKey |-> 0,
                 emailSet |-> {}]
    IN IF opts.Since = ZeroTime THEN [none EXCEPT !.err = "start must be set"]
       ELSE IF opts.Until = ZeroTime THEN [none EXCEPT !.err = "end must be set"]
       ELSE IF nb.err # "" THEN [none EXCEPT !.err = nb.err]
       ELSE [err |-> "", branch |-> nb.branch,
             startDayKey |-> dayKeyFromTime(beginningOfDay(opts.Since, loc), loc),
             endDayKey |-> dayKeyFromTime(beginningOfDay(opts.Until, loc), loc),
             emailSet |-> BuildEmailSet(opts.Emails, opts.NormalizeEmail)]

\* the head of collectCommonGeneric: the validation error, or the day keys,
\* the scope and the identity set handed to every task
Prepare(opts, loc) ==
    LET nb == normalizeBranchOption([Branch |-> opts.Branch, AllBranches |-> opts.AllBranch])
        start == beginningOfDay(opts.Since, loc)
        end == beginningOfDay(opts.Until, loc)
        none == [err |-> "", branch |-> NoBranch, startDayKey |-> 0, endDayKey |-> 0,
                 emailSet |-> {}]
    IN IF opts.Since = ZeroTime THEN [none EXCEPT !.err = "start must be set"]
       ELSE IF opts.Until = ZeroTime THEN [none EXCEPT !.err = "end must be set"]
       ELSE IF nb.err # "" THEN [none EXCEPT !.err = nb.err]
       ELSE IF start > end THEN [none EXCEPT !.err = "start must be <= end"]
       ELSE [err |-> "", branch |-> nb.branch,
             startDayKey |-> dayKeyFromTime(start, loc),
             endDayKey |-> dayKeyFromTime(end, loc),
             emailSet |-> BuildEmailSet(opts.Emails, opts.NormalizeEmail)]

\* only in a terminal and for more than one repository
newRepoProgressBar(total, tty) == total > 1 /\ tty

NoStats == EmptyMap

NewLocal(path) ==
    [path |-> path, load |-> "", walked |-> FALSE, save |-> "", stats |-> NoStats,
     err |-> NoErr]

\* one of the three entry points is called with the options of the query
Collect(entry, useCache, normalizeEmail, loc, tty) ==
    /\ query.on
    /\ ~Running
    /\ nq < MaxCalls
    /\ LET opts == [Repos |-> query.Repos, Emails |-> query.Emails, Since |-> query.Since,
                    Until |-> query.Until, Branch |-> query.Branch,
                    AllBranch |-> query.AllBranch, UseCache |-> useCache,
                    NormalizeEmail |-> normalizeEmail]
           p == Prepare(opts, loc)
           n == Len(opts.Repos)
           c == [on |-> TRUE, entry |-> entry, opts |-> opts, loc |-> loc,
                 startDayKey |-> p.startDayKey, endDayKey |-> p.endDayKey,
                 emailSet |-> p.emailSet, branch |-> p.branch,
                 bar |-> newRepoProgressBar(n, tty), snapshot |-> repos]
       IN IF p.err # ""
          THEN /\ call' = [c EXCEPT !.bar = FALSE] @@
                              [phase |-> "returned", tasks |-> <<>>,
                                ret |-> [nil |-> TRUE, result |-> EmptyMap,
                                         err |-> <<Err(p.err, "")>>]]
               /\ pc' = <<>>
               /\ local' = <<>>
          ELSE /\ call' = c @@ [phase |-> "running"]
               /\ pc' = [i \in 1..n |-> "spawned"]
               /\ local' = [i \in 1..n |-> NewLocal(opts.Repos[i])]
    /\ out' = EmptyMap
    /\ done' = <<>>
    /\ errs' = <<>>
    /\ hist' = [cache0 |-> cache, barAdds |-> 0, finished |-> FALSE]
    /\ prev' = call
    /\ nq' = nq + 1
    /\ walk' = NoWalk
    /\ UNCHANGED <<repos, cache, query, eval>>

HoldsSlot(i) == pc[i] \in {"open", "walk", "save", "merge", "fail", "exit", "advance"}

TaskUnchanged == UNCHANGED <<repos, walk, query, call, prev, nq, eval>>

\* a task that starts without waiting for a slot
TaskAcquire_NoLimit(i) ==
    /\ Running
    /\ i \in DOMAIN pc
    /\ pc[i] = "spawned"
    /\ pc' = [pc EXCEPT ![i] = "open"]
    /\ UNCHANGED <<cache, local, out, done, errs, hist>>
    /\ TaskUnchanged

\* sem <- struct{}{}
TaskAcquire(i) ==
    /\ Running
    /\ i \in DOMAIN pc
    /\ pc[i] = "spawned"
    /\ Cardinality({j \in DOMAIN pc : HoldsSlot(j)}) < maxConcurrency
    /\ pc' = [pc EXCEPT ![i] = "open"]
    /\ UNCHANGED <<cache, local, out, done, errs, hist>>
    /\ TaskUnchanged

\* the cache used whatever the flag says
UsesCache_IgnoresFlag == call.entry # "byEmails"

\* the cache used by the per-identity entry point as well
UsesCache_EveryEntryPoint == call.opts.UseCache

\* collectRepo consults the cache when the flag is set; collectRepoByEmails
\* discards the flag
UsesCache == call.entry # "byEmails" /\ call.opts.UseCache

TaskKey(i) ==
    buildRepoCacheKey(local[i].path, HeadHash(repos[local[i].path]), call.startDayKey,
                      call.endDayKey, call.emailSet, call.branch)

\* collectRepo where a cache file that cannot be read or decoded fails the task
collectRepoOpen_FailsOnLoadError(r, repoPath, usesCache, dir, key, fault) ==
    LET none == [err |-> NoErr, load |-> "", stats |-> NoStats]
        l == LoadCache(dir, key, fault)
        conv == fromCachedStats(l.entry.Stats)
    IN IF r.kind = "missing" THEN [none EXCEPT !.err = Err("stat repo", repoPath)]
       ELSE IF r.kind = "notgit" THEN [none EXCEPT !.err = Err("open repo", repoPath)]
       ELSE IF ~usesCache THEN none
       ELSE IF HeadHash(r) = NoHash THEN [none EXCEPT !.err = Err("head repo", repoPath)]
       ELSE IF l.err = "not exist" THEN [none EXCEPT !.load = "miss"]
       ELSE IF l.err # ""
       THEN [none EXCEPT !.load = "failed", !.err = Err("load cache", repoPath)]
       ELSE IF conv.err # ""
       THEN [none EXCEPT !.load = "failed", !.err = Err("load cache", repoPath)]
       ELSE [err |-> NoErr, load |-> "hit", stats |-> conv.daily]

\* collectRepo / collectRepoByEmails up to the walk: stat, open and, with the
\* cache in use, head, key and load.  load: "" (cache not consulted), "hit",
\* "miss" (no file) or "failed" (file unreadable or not a valid entry)
collectRepoOpen(r, repoPath, usesCache, dir, key, fault) ==
    LET none == [err |-> NoErr, load |-> "", stats |-> NoStats]
        l == LoadCache(dir, key, fault)
        conv == fromCachedStats(l.entry.Stats)
    IN IF r.kind = "missing" THEN [none EXCEPT !.err = Err("stat repo", repoPath)]
       ELSE IF r.kind = "notgit" THEN [none EXCEPT !.err = Err("open repo", repoPath)]
       ELSE IF ~usesCache THEN none
       ELSE IF HeadHash(r) = NoHash THEN [none EXCEPT !.err = Err("head repo", repoPath)]
       ELSE IF l.err = "not exist" THEN [none EXCEPT !.load = "miss"]
       ELSE IF l.err # "" THEN [none EXCEPT !.load = "failed"]
       ELSE IF conv.err # "" THEN [none EXCEPT !.load = "failed"]
       ELSE [err |-> NoErr, load |-> "hit", stats |-> conv.daily]

\* a task that hands its result to the merge without saving it
AfterWalk_SkipsSave(usesCache) == "merge"

\* where a task goes after a successful walk
AfterWalk(usesCache) == IF usesCache THEN "save" ELSE "merge"

TaskOpen(i, fault) ==
    /\ Running
    /\ i \in DOMAIN pc
    /\ pc[i] = "open"
    /\ LET path == local[i].path
           o == collectRepoOpen(repos[path], path, UsesCache, cache, TaskKey(i), fault)
       IN /\ fault # "none" =>
                 /\ UsesCache
                 /\ repos[path].kind = "ok"
                 /\ HeadHash(repos[path]) # NoHash
                 /\ getCachePath(TaskKey(i)) \in DOMAIN cache
          /\ local' = [local EXCEPT ![i].load = o.load, ![i].stats = o.stats,
                                    ![i].err = o.err]
          /\ pc' = [pc EXCEPT ![i] = IF o.err # NoErr THEN "fail"
                                     ELSE IF o.load = "hit" THEN "merge"
                                     ELSE "walk"]
    /\ UNCHANGED <<cache, out, done, errs, hist>>
    /\ TaskUnchanged

\* the walker of the entry point: per day, or per identity and day
TaskWalk(i, order) ==
    /\ Running
    /\ i \in DOMAIN pc
    /\ pc[i] = "walk"
    /\ (~call.branch.AllBranches => order = <<"dev", "main">>)
    /\ LET path == local[i].path
           res == IF call.entry = "byEmails"
                  THEN collectRepoByEmailsFromRepository(repos[path], path,
                           call.startDayKey, call.endDayKey, call.loc, call.emailSet,
                           call.branch, call.opts.NormalizeEmail, order)
                  ELSE collectRepoFromRepository(repos[path], path,
                           call.startDayKey, call.endDayKey, call.loc, call.emailSet,
                           call.branch, call.opts.NormalizeEmail, order)
       IN /\ local' = [local EXCEPT ![i].walked = TRUE, ![i].stats = res.stats,
                                    ![i].err = res.err]
          /\ pc' = [pc EXCEPT ![i] = IF res.err # NoErr THEN "fail"
                                     ELSE AfterWalk(UsesCache)]
    /\ UNCHANGED <<cache, out, done, errs, hist>>
    /\ TaskUnchanged

\* _ = cache.SaveCache(cacheKey, toCachedStats(stats))
TaskSave(i, fault) ==
    /\ Running
    /\ i \in DOMAIN pc
    /\ pc[i] = "save"
    /\ LET path == local[i].path
           sv == SaveCache(cache, TaskKey(i), toCachedStats(local[i].stats), fault,
                           Len(repos[path].commits))
       IN /\ cache' = sv.dir
          /\ local' = [local EXCEPT ![i].save = IF sv.err = "" THEN "ok" ELSE "failed"]
    /\ pc' = [pc EXCEPT ![i] = "merge"]
    /\ UNCHANGED <<out, done, errs, hist>>
    /\ TaskUnchanged

\* the sum of two day-count maps
AddMaps(a, b) ==
    [k \in DOMAIN a \cup DOMAIN b |-> Get(a, k) + Get(b, k)]

\* day keys to local midnights
ToTimes(daily, loc) ==
    [t \in {dayKeyToTime(k, loc) : k \in DOMAIN daily} |->
        daily[CHOOSE k \in DOMAIN daily : dayKeyToTime(k, loc) = t]]

\* an unsynchronised merge: the last writer replaces what was accumulated
aggregator_LastWriterWins(entry, acc, repoPath, stats, loc) ==
    IF entry = "global" THEN ToTimes(stats, loc)
    ELSE IF entry = "perRepo" THEN [p \in {repoPath} |-> ToTimes(stats, loc)]
    ELSE stats

\* the aggregator closures of the three entry points
aggregator(entry, acc, repoPath, stats, loc) ==
    IF entry = "global" THEN AddMaps(acc, ToTimes(stats, loc))
    ELSE IF entry = "perRepo"
    THEN [p \in DOMAIN acc \cup {repoPath} |->
             IF p = repoPath THEN ToTimes(stats, loc) ELSE acc[p]]
    ELSE [e \in DOMAIN acc \cup DOMAIN stats |->
             IF e \notin DOMAIN stats THEN acc[e]
             ELSE IF e \notin DOMAIN acc THEN stats[e]
             ELSE AddMaps(acc[e], stats[e])]

\* mu.Lock(); aggregator(repoPath, stats); done = append(done, repoPath)
TaskMerge(i) ==
    /\ Running
    /\ i \in DOMAIN pc
    /\ pc[i] = "merge"
    /\ out' = aggregator(call.entry, out, local[i].path, local[i].stats, call.loc)
    /\ done' = Append(done, local[i].path)
    /\ pc' = [pc EXCEPT ![i] = "exit"]
    /\ UNCHANGED <<cache, local, errs, hist>>
    /\ TaskUnchanged

\* a failed task that returns without wg.Done()
TaskFail_NeverDone(i) ==
    /\ Running
    /\ i \in DOMAIN pc
    /\ pc[i] = "fail"
    /\ errs' = Append(errs, local[i].err)
    /\ pc' = [pc EXCEPT ![i] = "gone"]
    /\ UNCHANGED <<cache, local, out, done, hist>>
    /\ TaskUnchanged

\* emu.Lock(); errs = append(errs, err)
TaskFail(i) ==
    /\ Running
    /\ i \in DOMAIN pc
    /\ pc[i] = "fail"
    /\ errs' = Append(errs, local[i].err)
    /\ pc' = [pc EXCEPT ![i] = "exit"]
    /\ UNCHANGED <<cache, local, out, done, hist>>
    /\ TaskUnchanged

\* bar.Add(1) entered without pmu
TaskAdvance_NoLock(i) ==
    /\ Running
    /\ i \in DOMAIN pc
    /\ pc[i] = "exit"
    /\ call.bar
    /\ pc' = [pc EXCEPT ![i] = "advance"]
    /\ UNCHANGED <<cache, local, out, done, errs, hist>>
    /\ TaskUnchanged

\* the first deferred call when there is a bar: pmu.Lock() and the entry
\* into bar.Add(1)
TaskAdvance(i) ==
    /\ Running
    /\ i \in DOMAIN pc
    /\ pc[i] = "exit"
    /\ call.bar
    /\ \A j \in DOMAIN pc : pc[j] # "advance"
    /\ pc' = [pc EXCEPT ![i] = "advance"]
    /\ UNCHANGED <<cache, local, out, done, errs, hist>>
    /\ TaskUnchanged

\* the deferred calls: the return of bar.Add(1) and pmu.Unlock() when there
\* is a bar, then wg.Done() and <-sem
TaskExit(i) ==
    /\ Running
    /\ i \in DOMAIN pc
    /\ pc[i] = IF call.bar THEN "advance" ELSE "exit"
    /\ hist' = [hist EXCEPT !.barAdds = IF call.bar THEN @ + 1 ELSE @]
    /\ pc' = [pc EXCEPT ![i] = "done"]
    /\ UNCHANGED <<cache, local, out, done, errs>>
    /\ TaskUnchanged

\* an entry point that gives up its result as soon as one task has failed
Returned_NilOnAnyError(entry, acc, merged, errors, loc) ==
    IF errors # <<>>
    THEN [nil |-> TRUE, result |-> EmptyMap, err |-> errors]
    ELSE [nil |-> FALSE,
          result |-> IF entry = "byEmails"
                     THEN [e \in DOMAIN acc |-> ToTimes(acc[e], loc)]
                     ELSE acc,
          err |-> errors]

\* what the entry point returns: nil and the error when nothing was merged
Returned(entry, acc, merged, errors, loc) ==
    IF errors # <<>> /\ merged = <<>>
    THEN [nil |-> TRUE, result |-> EmptyMap, err |-> errors]
    ELSE [nil |-> FALSE,
          result |-> IF entry = "byEmails"
                     THEN [e \in DOMAIN acc |-> ToTimes(acc[e], loc)]
                     ELSE acc,
          err |-> errors]

\* wg.Wait() returns; bar.Finish(); the entry point returns.  The locals of
\* the call die; what its tasks did is kept as call.tasks (by position in
\* the repository list)
Join ==
    /\ Running
    /\ \A i \in DOMAIN pc : pc[i] = "done"
    /\ call' = [call EXCEPT !.phase = "returned"] @@
                   [ret |-> Returned(call.entry, out, done, errs, call.loc),
                    tasks |-> local]
    /\ hist' = [hist EXCEPT !.finished = call.bar]
    /\ pc' = <<>>
    /\ local' = <<>>
    /\ out' = EmptyMap
    /\ done' = <<>>
    /\ errs' = <<>>
    /\ UNCHANGED <<repos, cache, walk, query, prev, nq, eval>>

----------------------------------------------------------------------------
(* Specification Spec: a fixed query is issued repeatedly through the three *)
(* entry points, with and without the cache, while repository r1 grows.    *)
(* r2 is a second repository, with one commit, that does not change.       *)

Paths == {"r1", "r2"}

OneCommitRepo ==
    [kind |-> "ok", commits |-> <<NewCommit(<<>>, "a@x", 6)>>,
     branches |-> [b \in BranchNames |-> 1], head |-> "main"]

\* (author, author time): on the day of Since before the instant Since, on
\* the day of Until after the instant Until, and on the day after Until
Authorships == {<<"a@x", 6>>, <<"b@x", 9>>, <<"b@x", 10>>}

Queries ==
    [on : {TRUE},
     Repos : {<<"r1">>, <<"r1", "r2">>},
     Emails : {<<>>, <<"a@x">>},
     Since : {7},
     Until : {8},
     Branch : {"", "dev"},
     AllBranch : BOOLEAN]

EntryPoints == {"global", "perRepo", "byEmails"}

\* the identity filter and the scopes are exercised on the queries over one
\* repository; a query over two repositories is unfiltered and follows HEAD
Init ==
    /\ repos = [p \in Paths |-> IF p = "r1" THEN EmptyRepo ELSE OneCommitRepo]
    /\ query \in Queries
    /\ ~(query.Branch # "" /\ query.AllBranch)
    /\ Len(query.Repos) > 1 =>
           query.Emails = <<>> /\ query.Branch = "" /\ ~query.AllBranch
    /\ InitIdle

\* r1 grows by at most MaxHistory commits, and only while calls are to come
Grow(b, email, when) ==
    /\ nq < MaxCalls
    /\ Len(repos["r1"].commits) < MaxHistory
    /\ GitCommit("r1", b, email, when)

Next ==
    \/ \E b \in BranchNames, a \in Authorships : Grow(b, a[1], a[2])
    \/ \E entry \in EntryPoints, useCache \in BOOLEAN : Collect(entry, useCache, <<>>, 0, FALSE)
    \/ \E i \in 1..Cardinality(Paths) : TaskAcquire(i)
    \/ \E i \in 1..Cardinality(Paths), fault \in LoadFaults : TaskOpen(i, fault)
    \/ \E i \in 1..Cardinality(Paths), order \in BranchOrders : TaskWalk(i, order)
    \/ \E i \in 1..Cardinality(Paths), fault \in SaveFaults : TaskSave(i, fault)
    \/ \E i \in 1..Cardinality(Paths) : TaskMerge(i)
    \/ \E i \in 1..Cardinality(Paths) : TaskFail(i)
    \/ \E i \in 1..Cardinality(Paths) : TaskExit(i)
    \/ Join

Spec == Init /\ [][Next]_vars

----------------------------------------------------------------------------
(* Reference semantics of a walk, stated on the commit graph *)

NoDup(seq) == \A i, j \in 1..Len(seq) : i # j => seq[i] # seq[j]

\* commit c of r passes the identity filter and the window
Passes(r, c, startDayKey, endDayKey, loc, emailSet, normalizeEmail) ==
    /\ emailSet = {} \/ NormalizeEmail(normalizeEmail, r.commits[c].email) \in emailSet
    /\ dayKeyFromTime(r.commits[c].when, loc) >= startDayKey
    /\ dayKeyFromTime(r.commits[c].when, loc) <= endDayKey

Expected(r, tips, startDayKey, endDayKey, loc, emailSet, normalizeEmail) ==
    {c \in Reach(r, tips) :
        Passes(r, c, startDayKey, endDayKey, loc, emailSet, normalizeEmail)}

\* m is the day-count map of the set S of commits of r
CountsOf(m, r, S, loc) ==
    /\ DOMAIN m \subseteq Range(Calendar)
    /\ \A k \in DOMAIN m : m[k] >= 1
    /\ \A k \in Range(Calendar) :
          Get(m, k) = Cardinality({c \in S : dayKeyFromTime(r.commits[c].when, loc) = k})

WalkExpected(tips) ==
    Expected(repos[walk.path], tips, walk.startDayKey, walk.endDayKey, walk.loc,
             walk.emailSet, walk.normalizeEmail)

WalkIsExactly(tips) ==
    /\ walk.res.err = NoErr
    /\ NoDup(walk.res.counted)
    /\ Range(walk.res.counted) = WalkExpected(tips)
    /\ CountsOf(walk.res.stats, repos[walk.path], WalkExpected(tips), walk.loc)

\* the walker of the tests that does not prune: a commit seen before is
\* skipped and the iterator goes on; it still stops an iterator at a commit
\* dated before the start day
collectRepoAllBranchesWithoutPruning(r, repoPath, startDayKey, endDayKey, loc, emailSet, order) ==
    LET startPoints == collectStartPoints(r, repoPath, [Branch |-> "", AllBranches |-> TRUE],
                                          order).tips
        \* st = [seenCommits, out, stop]
        callback(c, st) ==
            LET commitDayKey == dayKeyFromTime(r.commits[c].when, loc)
            IN IF commitDayKey > endDayKey THEN st
               ELSE IF commitDayKey < startDayKey THEN [st EXCEPT !.stop = TRUE]
               ELSE IF emailSet # {} /\ r.commits[c].email \notin emailSet THEN st
               ELSE IF c \in st.seenCommits THEN st
               ELSE [st EXCEPT !.seenCommits = @ \cup {c},
                               !.out = AddTo(@, commitDayKey, 1)]
        from[i \in 0..Len(startPoints)] ==
            IF i = 0 THEN [seenCommits |-> {}, out |-> EmptyMap, stop |-> FALSE]
            ELSE LET yield == LogFrom(r, startPoints[i])
                     each[j \in 0..Len(yield)] ==
                         IF j = 0 THEN [from[i - 1] EXCEPT !.stop = FALSE]
                         ELSE IF each[j - 1].stop THEN each[j - 1]
                         ELSE callback(yield[j], each[j - 1])
                 IN each[Len(yield)]
    IN from[Len(startPoints)].out

----------------------------------------------------------------------------
(* C1: under scope HEAD the walker counts every commit reachable from the   *)
(* head that passes the identity filter and lies in [Since, Until] exactly  *)
(* once, whatever the order of the author dates along the graph: a commit   *)
(* dated outside the window is skipped and the traversal goes on.           *)
C1_HeadWalkCountsEachOnce ==
    (walk.on /\ walk.branch = NoBranch) =>
        IF HeadHash(repos[walk.path]) = NoHash
        THEN walk.res.err # NoErr /\ walk.res.counted = <<>>
        ELSE WalkIsExactly({HeadHash(repos[walk.path])})

\* a counted commit lies behind (is an ancestor of) a commit dated before
\* Since, and the head also reaches a commit dated after Until
C1_Witness ==
    /\ walk.on
    /\ walk.branch = NoBranch
    /\ walk.res.err = NoErr
    /\ LET r == repos[walk.path]
           reach == Reach(r, {HeadHash(r)})
       IN /\ \E c \in Range(walk.res.counted), d \in reach :
                /\ c # d
                /\ c \in Reach(r, {d})
                /\ dayKeyFromTime(r.commits[d].when, walk.loc) < walk.startDayKey
          /\ \E d \in reach : dayKeyFromTime(r.commits[d].when, walk.loc) > walk.endDayKey

(* C4: under scope All no commit is counted twice, and every commit         *)
(* reachable from some local branch tip that passes the filters is counted  *)
(* exactly once.                                                            *)
C4_AllBranchesEachCommitOnce ==
    (walk.on /\ walk.branch.AllBranches) =>
        WalkIsExactly({Tip(repos[walk.path], b) : b \in BranchNames})

----------------------------------------------------------------------------
(* Reference semantics of a query, stated on the commit graph *)

Returned1 == call.on /\ call.phase = "returned"

Returned2 == Returned1 /\ prev.on /\ prev.phase = "returned"

\* the tips a scope starts from
ScopeTips(r, branch) ==
    IF branch.AllBranches THEN {Tip(r, b) : b \in BranchNames}
    ELSE IF branch.Branch # "" THEN {Tip(r, branch.Branch)}
    ELSE {HeadHash(r)}

\* the commits of r that call c has to count
CallExpected(c, r) ==
    Expected(r, ScopeTips(r, c.branch), dayKeyFromTime(c.opts.Since, c.loc),
             dayKeyFromTime(c.opts.Until, c.loc), c.loc, c.emailSet, c.opts.NormalizeEmail)

\* the local midnights of the calendar
Midnights(loc) == {dayKeyToTime(k, loc) : k \in Range(Calendar)}

\* the number of commits the result of returned call c reports for day t
DayTotal(c, t) ==
    IF c.ret.nil THEN 0
    ELSE IF c.entry = "global" THEN Get(c.ret.result, t)
    ELSE SumOver([x \in DOMAIN c.ret.result |-> Get(c.ret.result[x], t)],
                 DOMAIN c.ret.result)

\* the day-count maps returned call c hands to its caller
ReturnedMaps(c) ==
    IF c.ret.nil THEN {}
    ELSE IF c.entry = "global" THEN {c.ret.result}
    ELSE {c.ret.result[x] : x \in DOMAIN c.ret.result}

\* every key of m is a day of the window of call c, every value at least 1
InWindow(m, c) ==
    \A t \in DOMAIN m :
        /\ dayKeyFromTime(t, c.loc) >= dayKeyFromTime(c.opts.Since, c.loc)
        /\ dayKeyFromTime(t, c.loc) <= dayKeyFromTime(c.opts.Until, c.loc)
        /\ m[t] >= 1

----------------------------------------------------------------------------
(* C2: for a fixed query and unchanged repositories the three entry points  *)
(* agree day by day: the Global count of a day equals the sum over the      *)
(* repositories of the per-repository counts and the sum over the           *)
(* identities of the per-identity counts.                                   *)
C2_EntryPointsAgree ==
    (Returned2 /\ prev.entry # call.entry /\ prev.snapshot = call.snapshot) =>
        \A t \in Midnights(call.loc) : DayTotal(prev, t) = DayTotal(call, t)

----------------------------------------------------------------------------
(* The cache as the tasks of a call see it *)

\* the key task i of call c built, from the repository as the call found it
SnapshotKey(c, i) ==
    buildRepoCacheKey(c.tasks[i].path, HeadHash(c.snapshot[c.tasks[i].path]),
                      c.startDayKey, c.endDayKey, c.emailSet, c.branch)

\* what a Load of the key of task i of call c yields now
Reload(c, i) ==
    LET l == LoadCache(cache, SnapshotKey(c, i), "none")
    IN IF l.err # "" THEN [err |-> l.err, daily |-> EmptyMap]
       ELSE fromCachedStats(l.entry.Stats)

GlobalCached(c) == c.on /\ c.entry = "global" /\ c.opts.UseCache

\* a task that neither read nor wrote the cache
NoCacheTraffic(t) == t.load = "" /\ t.save = ""

\* a task left a readable entry behind: it succeeded, and saved or was served
Stored(t) == t.err = NoErr /\ (t.save = "ok" \/ t.load = "hit")

RECURSIVE MergeAll(_, _, _, _, _)
MergeAll(entry, tasks, i, acc, loc) ==
    IF i > Len(tasks) THEN acc
    ELSE MergeAll(entry, tasks, i + 1,
             IF tasks[i].err = NoErr
             THEN aggregator(entry, acc, tasks[i].path, tasks[i].stats, loc)
             ELSE acc,
             loc)

(* C5: with the cache enabled, after any new commit in a repository the     *)
(* next Global query builds a key no earlier query built, so a task served  *)
(* from the cache is never served an entry saved before the latest commit.  *)
C5_NoHitOnEntryOlderThanCommit ==
    \A i \in DOMAIN local :
        (Running /\ GlobalCached(call) /\ local[i].load = "hit") =>
            cache[getCachePath(TaskKey(i))].rev = Len(repos[local[i].path].commits)

(* C6: with the cache enabled, a Global task that missed the cache and      *)
(* whose walk succeeded issues its save before its result reaches the merge *)
(* step, hence before the call returns; after a cold run whose save         *)
(* succeeded a Load of the task's key yields the map the task returned.     *)
C6_SaveBeforeMerge ==
    /\ \A i \in DOMAIN local :
           (Running /\ GlobalCached(call) /\ local[i].walked /\ local[i].err = NoErr
              /\ pc[i] \in {"merge", "exit", "done"}) =>
               /\ local[i].save # ""
               /\ local[i].path \in Range(done) => local[i].save # ""
    /\ (Returned1 /\ GlobalCached(call)) =>
           /\ \A i \in DOMAIN call.tasks :
                  /\ (call.tasks[i].walked /\ call.tasks[i].err = NoErr) =>
                         call.tasks[i].save # ""
                  /\ call.tasks[i].save = "ok" =>
                         /\ Reload(call, i).err = ""
                         /\ Reload(call, i).daily = call.tasks[i].stats
           /\ (\A i \in DOMAIN call.tasks : call.tasks[i].save = "ok") =>
                  \A t \in Midnights(call.loc) :
                      DayTotal(call, t) =
                          SumOver([i \in DOMAIN call.tasks |->
                                      Get(ToTimes(Reload(call, i).daily, call.loc), t)],
                                  DOMAIN call.tasks)

\* a cold Global call over two repositories returned: both tasks walked and
\* saved, and the returned map holds two days
C6_Witness ==
    /\ Returned1
    /\ GlobalCached(call)
    /\ Len(call.tasks) = 2
    /\ \A i \in DOMAIN call.tasks :
           call.tasks[i].load = "miss" /\ call.tasks[i].walked /\ call.tasks[i].save = "ok"
    /\ Cardinality(DOMAIN call.ret.result) = 2

\* two consecutive Global calls with the cache enabled, the heads unchanged
SameHeadRerun ==
    /\ Returned2
    /\ GlobalCached(prev)
    /\ GlobalCached(call)
    /\ \A p \in Range(query.Repos) : HeadHash(prev.snapshot[p]) = HeadHash(call.snapshot[p])

(* C7 as stated: a second Global collection with the same parameters and    *)
(* an unchanged head does not invoke the walker and returns a map equal to  *)
(* the first collection's.                                                  *)
C7_SecondRunSkipsWalker ==
    SameHeadRerun =>
        /\ \A i \in DOMAIN call.tasks : ~call.tasks[i].walked
        /\ call.ret.result = prev.ret.result

(* C7 amended: the second collection does not invoke the walker for a       *)
(* repository whose task in the first collection succeeded and stored its   *)
(* entry, provided the entry can be read back; when that is so for every    *)
(* repository the two collections return equal maps.                        *)
C7_SecondRunSkipsWalkerWhenStored ==
    SameHeadRerun =>
        /\ \A i \in DOMAIN call.tasks :
               (Stored(prev.tasks[i]) /\ call.tasks[i].load # "failed") =>
                   ~call.tasks[i].walked
        /\ (\A i \in DOMAIN call.tasks :
                Stored(prev.tasks[i]) /\ call.tasks[i].load # "failed") =>
               /\ call.ret.result = prev.ret.result
               /\ call.ret.err = <<>>

\* the first collection walked and saved, the second was served from the
\* cache and returned the same non-empty map
C7_Witness ==
    /\ SameHeadRerun
    /\ \A i \in DOMAIN call.tasks :
           /\ prev.tasks[i].walked
           /\ prev.tasks[i].save = "ok"
           /\ call.tasks[i].load = "hit"
    /\ DOMAIN call.ret.result # {}

(* C8: a cache failure never changes the outcome of a query.  A task whose  *)
(* Load fails (file missing, unreadable, not JSON, undecodable date key)    *)
(* goes on to the walker as on a miss; a task whose Save fails still        *)
(* returns the computed map, and no error is joined for it.                 *)
C8_CacheFailuresHarmless ==
    /\ \A i \in DOMAIN local :
           LET r == repos[local[i].path]
           IN /\ (Running /\ local[i].load \in {"miss", "failed"}) =>
                     \/ pc[i] = "walk" /\ local[i].err = NoErr
                     \/ local[i].walked
              /\ (Running /\ local[i].save = "failed") =>
                     /\ pc[i] \in {"merge", "exit", "done"}
                     /\ local[i].err = NoErr
                     /\ CountsOf(local[i].stats, r, CallExpected(call, r), call.loc)
    /\ Returned1 =>
           /\ \A i \in DOMAIN call.tasks :
                  LET t == call.tasks[i]
                      r == call.snapshot[t.path]
                  IN (t.load \in {"miss", "failed"} \/ t.save = "failed") =>
                         /\ t.walked
                         /\ t.err = NoErr =>
                                /\ CountsOf(t.stats, r, CallExpected(call, r), call.loc)
                                /\ \A k \in DOMAIN call.ret.err : call.ret.err[k].path # t.path
                         /\ t.err # NoErr => t.err.kind \in {"branch not found", "head"}
           /\ (\E i \in DOMAIN call.tasks : call.tasks[i].err = NoErr) =>
                  /\ ~call.ret.nil
                  /\ call.entry # "byEmails" =>
                         call.ret.result =
                             MergeAll(call.entry, call.tasks, 1, EmptyMap, call.loc)

\* a call returned without error a non-empty map although the Load of one of
\* its tasks failed on an existing file and the Save of that task failed
C8_Witness ==
    /\ Returned1
    /\ call.ret.err = <<>>
    /\ ~call.ret.nil
    /\ DOMAIN call.ret.result # {}
    /\ \E i \in DOMAIN call.tasks :
           /\ call.tasks[i].load = "failed"
           /\ call.tasks[i].save = "failed"
           /\ DOMAIN call.tasks[i].stats # {}

(* C9: with caching disabled every repository task that can open its        *)
(* repository runs the walker, and the query reads, creates and modifies    *)
(* no cache entry.                                                          *)
C9_DisabledCacheUntouched ==
    (call.on /\ ~call.opts.UseCache) =>
        /\ cache = hist.cache0
        /\ \A i \in DOMAIN local :
               /\ NoCacheTraffic(local[i])
               /\ pc[i] \in {"save", "merge", "fail", "exit", "done"} =>
                      \/ local[i].walked
                      \/ local[i].err.kind \in {"stat repo", "open repo"}
               /\ pc[i] # "save"
        /\ Returned1 =>
               \A i \in DOMAIN call.tasks :
                   /\ NoCacheTraffic(call.tasks[i])
                   /\ \/ call.tasks[i].walked
                      \/ call.tasks[i].err.kind \in {"stat repo", "open repo"}

\* a Global call with caching disabled returned after walking, while the
\* cache holds an entry under the very key of its task
C9_Witness ==
    /\ Returned1
    /\ call.entry = "global"
    /\ ~call.opts.UseCache
    /\ call.tasks # <<>>
    /\ \A i \in DOMAIN call.tasks :
           /\ call.tasks[i].walked
           /\ call.tasks[i].err = NoErr
           /\ getCachePath(SnapshotKey(call, i)) \in DOMAIN cache

(* C10 as stated: the per-repository and the per-identity entry points      *)
(* never read or write the cache, whatever the caching flag.                *)
C10_OnlyGlobalCaches ==
    (call.on /\ call.entry \in {"perRepo", "byEmails"}) =>
        /\ cache = hist.cache0
        /\ \A i \in DOMAIN local : NoCacheTraffic(local[i])
        /\ Returned1 => \A i \in DOMAIN call.tasks : NoCacheTraffic(call.tasks[i])

(* C10 amended: the per-identity entry point never reads or writes the      *)
(* cache, whatever the caching flag; the Global and the per-repository      *)
(* entry points both consult the cache, and save what they walked, when     *)
(* the flag is set.                                                         *)
C10_OnlyPerIdentityNeverCaches ==
    /\ (call.on /\ call.entry = "byEmails") =>
           /\ cache = hist.cache0
           /\ \A i \in DOMAIN local : NoCacheTraffic(local[i])
           /\ Returned1 => \A i \in DOMAIN call.tasks : NoCacheTraffic(call.tasks[i])
    /\ (Returned1 /\ call.entry \in {"global", "perRepo"} /\ call.opts.UseCache) =>
           \A i \in DOMAIN call.tasks :
               LET t == call.tasks[i]
               IN HeadHash(call.snapshot[t.path]) # NoHash =>
                      /\ t.load # ""
                      /\ (t.walked /\ t.err = NoErr) => t.save # ""

\* a per-identity call with the flag set walked and returned while the
\* cache holds an entry under the key of its task, and the call before it
\* was a per-repository call that saved an entry
C10_Witness ==
    /\ Returned2
    /\ call.entry = "byEmails"
    /\ call.opts.UseCache
    /\ call.tasks # <<>>
    /\ \A i \in DOMAIN call.tasks :
           /\ call.tasks[i].walked
           /\ getCachePath(SnapshotKey(call, i)) \in DOMAIN cache
    /\ prev.entry = "perRepo"
    /\ \E i \in DOMAIN prev.tasks : prev.tasks[i].save = "ok"

----------------------------------------------------------------------------
(* Specification SpecTasks: one call of an entry point over three           *)
(* repositories, two of which may be missing, not a repository, unreadable, *)
(* without a resolvable head or without the named branch; the query may be  *)
(* invalid.  The tasks run in every interleaving through two slots.         *)

TaskPaths == {"r1", "r2", "r3"}

\* the repositories a task can meet: a missing path, a directory that is
\* not a repository, a repository whose commit on main cannot be read, an
\* empty repository, one whose HEAD names main while only dev exists, and
\* one with a single commit on main, dated after the windows of the queries
RepoFamily ==
    LET one(email, when, b) ==
            [kind |-> "ok", commits |-> <<NewCommit(<<>>, email, when)>>,
             branches |-> [x \in BranchNames |-> IF x = b THEN 1 ELSE NoHash],
             head |-> "main"]
    IN [missing |-> [EmptyRepo EXCEPT !.kind = "missing"],
        notgit |-> [EmptyRepo EXCEPT !.kind = "notgit"],
        corrupt |-> [one("a@x", 6, "main") EXCEPT !.kind = "corrupt"],
        empty |-> EmptyRepo,
        unbornDev |-> one("b@x", 9, "dev"),
        mainLate |-> one("b@x", 10, "main")]

\* r1 is any repository of the family, r2 one of three, r3 is sound; the
\* query may be invalid in each of the four ways
InitTasks ==
    /\ \E k1 \in DOMAIN RepoFamily, k2 \in {"missing", "unbornDev", "mainLate"} :
           repos = [p \in TaskPaths |-> IF p = "r1" THEN RepoFamily[k1]
                                        ELSE IF p = "r2" THEN RepoFamily[k2]
                                        ELSE OneCommitRepo]
    /\ query \in [on : {TRUE},
                  Repos : {<<"r1", "r2", "r3">>},
                  Emails : {<<>>, <<"b@x">>},
                  Since : {ZeroTime, 7, 10},
                  Until : {ZeroTime, 6, 8},
                  Branch : {"", " ", "dev"},
                  AllBranch : BOOLEAN]
    /\ query.Emails # <<>> => query.Branch = "" /\ ~query.AllBranch
    /\ query.Branch = " " => query.AllBranch
    /\ query.Until = 6 => query.Branch = ""
    /\ InitIdle

NextTasks ==
    \/ \E entry \in EntryPoints, useCache \in BOOLEAN, tty \in BOOLEAN :
           nq = 0 /\ Collect(entry, useCache, <<>>, 0, tty)
    \/ \E i \in 1..Cardinality(TaskPaths) : TaskAcquire(i)
    \/ \E i \in 1..Cardinality(TaskPaths) : TaskOpen(i, "none")
    \/ \E i \in 1..Cardinality(TaskPaths), order \in BranchOrders : TaskWalk(i, order)
    \/ \E i \in 1..Cardinality(TaskPaths), fault \in SaveFaults : TaskSave(i, fault)
    \/ \E i \in 1..Cardinality(TaskPaths) : TaskMerge(i)
    \/ \E i \in 1..Cardinality(TaskPaths) : TaskFail(i)
    \/ \E i \in 1..Cardinality(TaskPaths) : TaskAdvance(i)
    \/ \E i \in 1..Cardinality(TaskPaths) : TaskExit(i)
    \/ Join

SpecTasks == InitTasks /\ [][NextTasks]_vars

----------------------------------------------------------------------------
(* The same call run one repository at a time, in the order of the list *)

\* what the task of repository path yields on its own, from the cache as
\* the call found it (the keys of distinct paths are distinct files)
SoloTask(c, path) ==
    LET r == c.snapshot[path]
        usesCache == c.entry # "byEmails" /\ c.opts.UseCache
        key == buildRepoCacheKey(path, HeadHash(r), c.startDayKey, c.endDayKey,
                                 c.emailSet, c.branch)
        o == collectRepoOpen(r, path, usesCache, hist.cache0, key, "none")
        res == IF c.entry = "byEmails"
               THEN collectRepoByEmailsFromRepository(r, path, c.startDayKey,
                        c.endDayKey, c.loc, c.emailSet, c.branch,
                        c.opts.NormalizeEmail, <<"dev", "main">>)
               ELSE collectRepoFromRepository(r, path, c.startDayKey,
                        c.endDayKey, c.loc, c.emailSet, c.branch,
                        c.opts.NormalizeEmail, <<"dev", "main">>)
    IN IF o.err # NoErr THEN [path |-> path, err |-> o.err, stats |-> NoStats]
       ELSE IF o.load = "hit" THEN [path |-> path, err |-> NoErr, stats |-> o.stats]
       ELSE [path |-> path, err |-> res.err, stats |-> res.stats]

Sequential(c) ==
    LET tasks == [i \in 1..Len(c.opts.Repos) |-> SoloTask(c, c.opts.Repos[i])]
        failed == SelectSeq(tasks, LAMBDA t : t.err # NoErr)
        merged == SelectSeq(tasks, LAMBDA t : t.err = NoErr)
    IN Returned(c.entry, MergeAll(c.entry, tasks, 1, EmptyMap, c.loc),
                [i \in 1..Len(merged) |-> merged[i].path],
                [i \in 1..Len(failed) |-> failed[i].err], c.loc)

\* the call passed validation
ValidCall(c) == Prepare(c.opts, c.loc).err = ""

(* C11: for a fixed input the result of an entry point and the set of the   *)
(* joined per-repository errors are the same in every interleaving of the   *)
(* tasks: they are those of running the repositories one after the other in *)
(* list order; only the order of the errors may differ.                     *)
C11_InterleavingInvariant ==
    (Returned1 /\ ValidCall(call)) =>
        LET seq == Sequential(call)
        IN /\ call.ret.nil = seq.nil
           /\ call.ret.result = seq.result
           /\ Range(call.ret.err) = Range(seq.err)
           /\ Len(call.ret.err) = Len(seq.err)

\* two tasks failed and their errors were joined in another order than the
\* list's, while the third task merged its day counts
C11_Witness ==
    /\ Returned1
    /\ ValidCall(call)
    /\ Len(call.ret.err) = 2
    /\ call.ret.err # Sequential(call).err
    /\ ~call.ret.nil
    /\ call.ret.result # EmptyMap

(* C12: the failure of one repository task (path missing, open failed,     *)
(* head unresolvable under scope HEAD, named branch absent, iterator       *)
(* error) never alters the collection of the other repositories: the       *)
(* result is the one the same query gives over the list without the        *)
(* failing repositories, every task that did not fail holds exactly the    *)
(* counts of its own repository, and the joined error holds one error per  *)
(* failed repository, with the path of that repository in it.              *)
C12_FailuresIsolated ==
    (Returned1 /\ ValidCall(call)) =>
        LET ok == SelectSeq(call.tasks, LAMBDA t : t.err = NoErr)
            failed == {i \in DOMAIN call.tasks : call.tasks[i].err # NoErr}
            without == [call EXCEPT !.opts.Repos = [i \in 1..Len(ok) |-> ok[i].path]]
        IN /\ call.ret.result = Sequential(without).result
           /\ \A i \in DOMAIN call.tasks \ failed :
                 LET r == call.snapshot[call.tasks[i].path]
                     st == call.tasks[i].stats
                     S == CallExpected(call, r)
                 IN IF call.entry = "byEmails"
                    THEN /\ DOMAIN st = {r.commits[c].email : c \in S}
                         /\ \A e \in DOMAIN st :
                               CountsOf(st[e], r, {c \in S : r.commits[c].email = e},
                                        call.loc)
                    ELSE CountsOf(st, r, S, call.loc)
           /\ Len(call.ret.err) = Cardinality(failed)
           /\ \A i \in failed :
                 /\ call.tasks[i].err.path = call.tasks[i].path
                 /\ Cardinality({n \in DOMAIN call.ret.err :
                                    call.ret.err[n] = call.tasks[i].err}) = 1

\* two repositories failed, one in the iterator and one for its head, and
\* the third one's commit is in the result
C12_Witness ==
    /\ Returned1
    /\ ValidCall(call)
    /\ \E n \in DOMAIN call.ret.err : call.ret.err[n].kind = "iterate repo"
    /\ \E n \in DOMAIN call.ret.err : call.ret.err[n].kind = "head"
    /\ \E i \in DOMAIN call.tasks :
          call.tasks[i].err = NoErr /\ call.tasks[i].stats # EmptyMap
    /\ call.ret.result # EmptyMap

----------------------------------------------------------------------------
(* The command layer on the result of CollectStats *)

\* runShow: "fatal" (all repositories failed ...), "warning" (some
\* repositories failed, showing partial results) or "ok"; len(st) is the
\* number of days of the returned map, 0 for a nil map
runShow(ret) ==
    IF ret.err # <<>>
    THEN IF Cardinality(DOMAIN ret.result) = 0 THEN "fatal" ELSE "warning"
    ELSE "ok"

(* C13: when at least one repository task succeeds and at least one fails  *)
(* the outcome is a partial failure: the entry point returns the merged    *)
(* result with the joined error and the command layer prints a warning and *)
(* continues; a total failure is reported only when errors were recorded   *)
(* and no repository task succeeded.                                       *)
C13_PartialFailureIsWarning ==
    (Returned1 /\ ValidCall(call) /\ call.entry = "global") =>
        LET succeeded == \E i \in DOMAIN call.tasks : call.tasks[i].err = NoErr
            failed == \E i \in DOMAIN call.tasks : call.tasks[i].err # NoErr
        IN /\ (succeeded /\ failed) =>
                 /\ ~call.ret.nil
                 /\ call.ret.result = MergeAll("global", call.tasks, 1, EmptyMap, call.loc)
                 /\ call.ret.err # <<>>
                 /\ runShow(call.ret) = "warning"
           /\ runShow(call.ret) = "fatal" => (call.ret.err # <<>> /\ ~succeeded)

----------------------------------------------------------------------------
(* C14: for an invalid query (Since or Until zero, Since after Until once  *)
(* both are taken to the beginning of their day, or both a branch and      *)
(* all-branches) every entry point returns a validation error with a nil   *)
(* result; no task is spawned, no repository is opened, no cache entry is  *)
(* read or written and no progress signal is sent.                         *)
C14_InvalidQueryRejected ==
    (/\ call.on
     /\ \/ call.opts.Since = ZeroTime
        \/ call.opts.Until = ZeroTime
        \/ dayKeyFromTime(call.opts.Since, call.loc) >
               dayKeyFromTime(call.opts.Until, call.loc)
        \/ (TrimSpace(call.opts.Branch) # "" /\ call.opts.AllBranch)) =>
        /\ call.phase = "returned"
        /\ call.ret.nil
        /\ Len(call.ret.err) = 1
        /\ call.ret.err[1].kind \in
               {"start must be set", "end must be set", "start must be <= end",
                "--branch and --all-branches are mutually exclusive"}
        /\ call.tasks = <<>>
        /\ pc = <<>> /\ local = <<>> /\ done = <<>> /\ errs = <<>>
        /\ cache = hist.cache0
        /\ ~call.bar /\ hist.barAdds = 0 /\ ~hist.finished

\* a query over three repositories in a terminal whose Since lies on a
\* later day than its Until was rejected
C14_Witness ==
    /\ Returned1
    /\ call.opts.Since # ZeroTime
    /\ call.opts.Until # ZeroTime
    /\ dayKeyFromTime(call.opts.Since, call.loc) > dayKeyFromTime(call.opts.Until, call.loc)
    /\ Len(call.opts.Repos) = 3
    /\ call.ret.nil
    /\ call.ret.err = <<Err("start must be <= end", "")>>

----------------------------------------------------------------------------
(* Specification SpecPure: the functions of the program that depend on     *)
(* their arguments only are called directly, on arguments drawn from the   *)
(* sets below; eval records the last call.                                 *)

\* eval holds the arguments of a call to come (on is FALSE), then the
\* arguments and the result
EvalNormalizeEmail ==
    /\ ~eval.on
    /\ eval.fn = "NormalizeEmail"
    /\ eval' = [eval EXCEPT !.on = TRUE] @@
                    [res |-> NormalizeEmail(eval.aliases, eval.raw)]
    /\ UNCHANGED <<repos, cache, walk, query, call, pc, local, out, done, errs, hist,
                   prev, nq>>

\* cache keys: a key, spellings of it that differ in the order of the
\* identities, in blanks around the fields, in empty identities and in the
\* spelling of the path, and keys of other content
StoreKeys ==
    LET k0 == [RepoPath |-> "r1", HEADHash |-> 1, Emails |-> <<"a@x", "b@x">>,
               TimeRange |-> <<(<<2024, 2, 1>>), (<<2024, 2, 2>>)>>,
               Branch |-> "dev", AllBranch |-> FALSE]
    IN {k0,
        [k0 EXCEPT !.Emails = <<"b@x", "a@x">>],
        [k0 EXCEPT !.Emails = <<"a@x", "", "b@x">>],
        [k0 EXCEPT !.RepoPath = " r1 ", !.HEADHash = -1, !.Emails = <<" a@x ", "b@x">>,
                   !.TimeRange = Append(@, " "), !.Branch = " dev "],
        [k0 EXCEPT !.RepoPath = "./r1"],
        [k0 EXCEPT !.RepoPath = "r1/", !.HEADHash = -1, !.Emails = <<"b@x", "", " a@x ">>,
                   !.TimeRange = Append(@, " "), !.Branch = " dev "],
        [k0 EXCEPT !.Emails = <<"a@x">>],
        [k0 EXCEPT !.RepoPath = "r2", !.HEADHash = 2, !.Branch = "", !.AllBranch = TRUE]}

PureUnchanged == UNCHANGED <<repos, walk, query, call, pc, out, done, errs, prev, nq>>

\* the caller encodes its map m and saves it under key; hist is the list of
\* the saves made, local the maps the caller holds
CallSaveCache(key, m) ==
    /\ Len(hist) < MaxSaves
    /\ LET sv == SaveCache(cache, key, toCachedStats(m), "none", 0)
       IN /\ cache' = sv.dir
          /\ eval' = [on |-> TRUE, fn |-> "SaveCache", key |-> key, err |-> sv.err]
    /\ hist' = Append(hist, [key |-> key, m |-> m])
    /\ local' = [local EXCEPT !.m = m, !.mutated = @ \ {"m"}]
    /\ PureUnchanged

\* the caller loads key and decodes the statistics of the entry
CallLoadCache(key) ==
    /\ LET l == LoadCache(cache, key, "none")
           conv == IF l.err = "" THEN fromCachedStats(l.entry.Stats)
                   ELSE [err |-> l.err, daily |-> EmptyMap]
       IN /\ eval' = [on |-> TRUE, fn |-> "LoadCache", key |-> key,
                      err |-> IF l.err # "" THEN l.err ELSE conv.err,
                      entryKey |-> IF l.err = "" THEN l.entry.Key ELSE key,
                      daily |-> conv.daily]
          /\ local' = IF "loaded" \in local.mutated \/ l.err # "" THEN local
                      ELSE [local EXCEPT !.loaded = conv.daily]
    /\ UNCHANGED <<cache, hist>>
    /\ PureUnchanged

\* the caller writes into the map it saved, or into the map it was handed
Mutate(which) ==
    /\ hist # <<>>
    /\ which \notin local.mutated
    /\ local' = [local EXCEPT ![which] = [d \in {20240203} |-> 7],
                              !.mutated = @ \cup {which}]
    /\ UNCHANGED <<cache, hist, eval>>
    /\ PureUnchanged

\* no extra unit is handed out
distribute_None(units, rems, left) == units

\* the rows of the left largest remainders get one unit more; rems[i] is
\* the remainder, the commits and the path of row i
distribute(units, rems, left) ==
    LET before(i, j) ==
            IF rems[i].remainder # rems[j].remainder
            THEN rems[i].remainder > rems[j].remainder
            ELSE IF rems[i].commits # rems[j].commits
            THEN rems[i].commits > rems[j].commits
            ELSE Rank(rems[i].repo) < Rank(rems[j].repo)
        sorted[S \in SUBSET DOMAIN rems] ==
            IF S = {} THEN <<>>
            ELSE LET m == CHOOSE i \in S : \A j \in S \ {i} : before(i, j)
                 IN <<m>> \o sorted[S \ {m}]
        order == sorted[DOMAIN rems]
        extra == {order[i] : i \in {n \in 1..Len(order) : n <= left}}
    IN IF left > 0 THEN [i \in DOMAIN units |-> IF i \in extra THEN units[i] + 1
                                                 ELSE units[i]]
       ELSE units

\* the limit is applied after the total has been taken
RankRepositories_TotalBeforeLimit(statsPerRepo, limit) ==
    LET total(p) == SumOver([t \in DOMAIN statsPerRepo[p] |->
                                IF statsPerRepo[p][t] <= 0 THEN 0
                                ELSE statsPerRepo[p][t]], DOMAIN statsPerRepo[p])
        first(p, q) == IF total(p) # total(q) THEN total(p) > total(q)
                       ELSE Rank(p) < Rank(q)
        sorted[S \in SUBSET DOMAIN statsPerRepo] ==
            IF S = {} THEN <<>>
            ELSE LET m == CHOOSE p \in S : \A q \in S \ {p} : first(p, q)
                 IN <<m>> \o sorted[S \ {m}]
        all == sorted[DOMAIN statsPerRepo]
        rows == IF limit > 0 /\ limit < Len(all) THEN SubSeq(all, 1, limit) ELSE all
        totalCommits == SumOver([i \in DOMAIN all |-> total(all[i])], DOMAIN all)
    IN [Repositories |-> [i \in DOMAIN rows |->
                             [Repository |-> rows[i], Commits |-> total(rows[i]),
                              Percent |-> IF totalCommits <= 0 THEN 0
                                          ELSE (total(rows[i]) * 1000) \div totalCommits]],
        TotalCommits |-> totalCommits]

\* RankRepositories; Percent is held in tenths of a percent
RankRepositories(statsPerRepo, limit) ==
    LET total(p) == SumOver([t \in DOMAIN statsPerRepo[p] |->
                                IF statsPerRepo[p][t] <= 0 THEN 0
                                ELSE statsPerRepo[p][t]], DOMAIN statsPerRepo[p])
        first(p, q) == IF total(p) # total(q) THEN total(p) > total(q)
                       ELSE Rank(p) < Rank(q)
        sorted[S \in SUBSET DOMAIN statsPerRepo] ==
            IF S = {} THEN <<>>
            ELSE LET m == CHOOSE p \in S : \A q \in S \ {p} : first(p, q)
                 IN <<m>> \o sorted[S \ {m}]
        all == sorted[DOMAIN statsPerRepo]
        rows == IF limit > 0 /\ limit < Len(all) THEN SubSeq(all, 1, limit) ELSE all
        totalCommits == SumOver([i \in DOMAIN rows |-> total(rows[i])], DOMAIN rows)
        totalUnits == 1000
        units == [i \in DOMAIN rows |-> (total(rows[i]) * totalUnits) \div totalCommits]
        rems == [i \in DOMAIN rows |->
                    [remainder |-> (total(rows[i]) * totalUnits) % totalCommits,
                     commits |-> total(rows[i]), repo |-> rows[i]]]
        final == distribute(units, rems,
                            totalUnits - SumOver(units, DOMAIN units))
    IN IF totalCommits <= 0
       THEN [Repositories |-> [i \in DOMAIN rows |->
                                  [Repository |-> rows[i], Commits |-> total(rows[i]),
                                   Percent |-> 0]],
             TotalCommits |-> 0]
       ELSE [Repositories |-> [i \in DOMAIN rows |->
                                  [Repository |-> rows[i], Commits |-> total(rows[i]),
                                   Percent |-> final[i]]],
             TotalCommits |-> totalCommits]

\* time.Date(year, month, day, 0, 0, 0, 0, loc): month and day outside their
\* range are carried over as Go does; the instant is in half days, day 1
\* being 2024-01-30, a Tuesday
Date(year, month, day, loc) ==
    LET y == year + ((month - 1) \div 12)
        m == ((month - 1) % 12) + 1
        leap == y % 4 = 0 /\ (y % 100 # 0 \/ y % 400 = 0)
        dim == <<31, IF leap THEN 29 ELSE 28, 31, 30, 31, 30, 31, 31, 30, 31, 30, 31>>
        beforeYear == 365 * (y - 1) + ((y - 1) \div 4) - ((y - 1) \div 100)
                          + ((y - 1) \div 400)
        beforeMonth == SumOver(dim, 1..(m - 1))
    IN 2 * (beforeYear + beforeMonth + day - 738914) - loc

\* t.AddDate(years, months, days) of a local midnight: Year, Month and Day
\* of t, then time.Date of the shifted fields
AddDate(t, years, months, days, loc) ==
    LET y == CHOOSE yy \in 2020..2027 :
                 Date(yy, 1, 1, loc) <= t /\ t < Date(yy + 1, 1, 1, loc)
        m == CHOOSE mm \in 1..12 :
                 Date(y, mm, 1, loc) <= t /\ t < Date(y, mm + 1, 1, loc)
        d == LocalDay(t, loc) - LocalDay(Date(y, m, 1, loc), loc) + 1
    IN Date(y + years, m + months, d + days, loc)

\* the start is not moved back to a Sunday
heatmapStart_NoAlign(now, months, loc) ==
    beginningOfDay(AddDate(beginningOfDay(now, loc), 0, -months, 0, loc), loc)

\* heatmapStart: months back from now, then back to the Sunday
heatmapStart(now, months, loc) ==
    LET start == beginningOfDay(AddDate(beginningOfDay(now, loc), 0, -months, 0, loc), loc)
        Weekday(t) == (LocalDay(t, loc) + 1) % 7
        back[k \in 0..7] ==
            IF k = 7 \/ Weekday(AddDate(start, 0, 0, -k, loc)) = 0
            THEN AddDate(start, 0, 0, -k, loc)
            ELSE back[k + 1]
    IN back[0]

\* ParseDate; a string is held as its kind and its numbers: "" (empty or
\* blank), "iso" (a-b-c), "ym" (a-b), "rel" (a followed by the unit b:
\* 1 w, 2 m, 3 y, 0 another letter), "bad" (anything else)
ParseDate(s, now, loc) ==
    LET leap == s.a % 4 = 0 /\ (s.a % 100 # 0 \/ s.a % 400 = 0)
        dim == <<31, IF leap THEN 29 ELSE 28, 31, 30, 31, 30, 31, 31, 30, 31, 30, 31>>
        base == beginningOfDay(now, loc)
    IN IF s.kind = "" THEN [err |-> "date is empty", t |-> ZeroTime]
       ELSE IF s.kind = "iso" /\ s.b \in 1..12 /\ s.c \in 1..dim[s.b]
       THEN [err |-> "", t |-> beginningOfDay(Date(s.a, s.b, s.c, loc), loc)]
       ELSE IF s.kind = "ym" /\ s.b \in 1..12
       THEN [err |-> "", t |-> Date(s.a, s.b, 1, loc)]
       ELSE IF s.kind = "rel" /\ s.a <= 0
       THEN [err |-> "relative date must be > 0", t |-> ZeroTime]
       ELSE IF s.kind = "rel" /\ s.b = 1
       THEN [err |-> "", t |-> AddDate(base, 0, 0, -7 * s.a, loc)]
       ELSE IF s.kind = "rel" /\ s.b = 2
       THEN [err |-> "", t |-> AddDate(base, 0, -s.a, 0, loc)]
       ELSE IF s.kind = "rel" /\ s.b = 3
       THEN [err |-> "", t |-> AddDate(base, -s.a, 0, 0, loc)]
       ELSE [err |-> "invalid date", t |-> ZeroTime]

\* TimeRange; timeNow() gives now to TimeRange and the later instant now2 to
\* the calls of ParseDate
TimeRange(since, until, months, now, now2, loc) ==
    LET fail(e) == [err |-> e, start |-> ZeroTime, end |-> ZeroTime]
        ps == ParseDate(since, now2, loc)
        pu == ParseDate(until, now2, loc)
        end == IF until.kind # "" THEN beginningOfDay(pu.t, loc)
               ELSE beginningOfDay(now, loc)
        start == IF since.kind # "" THEN beginningOfDay(ps.t, loc)
                 ELSE heatmapStart(end, months, loc)
    IN IF since.kind = "" /\ until.kind = ""
       THEN IF months <= 0 THEN fail("months must be > 0")
            ELSE [err |-> "", start |-> heatmapStart(now, months, loc),
                  end |-> beginningOfDay(now, loc)]
       ELSE IF since.kind # "" /\ ps.err # "" THEN fail("parse --since")
       ELSE IF until.kind # "" /\ pu.err # "" THEN fail("parse --until")
       ELSE IF since.kind = "" /\ months <= 0 THEN fail("months must be > 0")
       ELSE IF start > end THEN fail("since must be <= until")
       ELSE [err |-> "", start |-> start, end |-> end]

EvalTimeRange ==
    /\ ~eval.on
    /\ eval.fn = "TimeRange"
    /\ eval' = [eval EXCEPT !.on = TRUE] @@
                    [res |-> TimeRange(eval.since, eval.until, eval.months, eval.now,
                                       eval.now2, eval.loc)]
    /\ UNCHANGED <<repos, cache, walk, query, call, pc, local, out, done, errs, hist,
                   prev, nq>>

\* a change from 0 is reported as a defined 0
CalculatePercentChange_ZeroFromIsZero(from, to) ==
    IF ~from.nan /\ from.v = 0
    THEN [Percent |-> [nan |-> FALSE, num |-> 0, den |-> 1], Defined |-> TRUE]
    ELSE [Percent |-> [nan |-> from.nan \/ to.nan, num |-> (to.v - from.v) * 100,
                       den |-> from.v],
          Defined |-> TRUE]

\* CalculatePercentChange; a float64 is a number v or NaN, and Percent is
\* held as the fraction num / den
CalculatePercentChange(from, to) ==
    IF ~from.nan /\ from.v = 0
    THEN IF ~to.nan /\ to.v = 0
         THEN [Percent |-> [nan |-> FALSE, num |-> 0, den |-> 1], Defined |-> TRUE]
         ELSE [Percent |-> [nan |-> FALSE, num |-> 0, den |-> 1], Defined |-> FALSE]
    ELSE [Percent |-> [nan |-> from.nan \/ to.nan,
                       num |-> IF from.nan \/ to.nan THEN 0 ELSE (to.v - from.v) * 100,
                       den |-> IF from.nan \/ to.nan THEN 1 ELSE from.v],
          Defined |-> TRUE]

\* CalculatePercentChanges; nil is the empty list
CalculatePercentChanges(values) ==
    LET loop[i \in 2..(Len(values) + 1)] ==
            IF i > Len(values) THEN <<>>
            ELSE <<CalculatePercentChange(values[i - 1], values[i])>> \o loop[i + 1]
    IN IF Len(values) < 2 THEN <<>> ELSE loop[2]

EvalPercentChanges ==
    /\ ~eval.on
    /\ eval.fn = "CalculatePercentChanges"
    /\ eval' = [eval EXCEPT !.on = TRUE] @@
                    [res |-> CalculatePercentChanges(eval.values)]
    /\ UNCHANGED <<repos, cache, walk, query, call, pc, local, out, done, errs, hist,
                   prev, nq>>

\* of the longest runs the earliest is reported
CalculateSummary_EarliestTie(stats, now, loc) ==
    LET P == {d \in DOMAIN stats : stats[d] > 0}
        runs == {r \in P \X P :
                    /\ r[1] <= r[2]
                    /\ \A d \in P : (r[1] <= d /\ d <= r[2]) => (d - r[1]) % 2 = 0
                    /\ \A k \in 0..((r[2] - r[1]) \div 2) : r[1] + 2 * k \in P
                    /\ r[1] - 2 \notin P /\ r[2] + 2 \notin P}
        best == CHOOSE r \in runs :
                    \A q \in runs : \/ q[2] - q[1] < r[2] - r[1]
                                    \/ q[2] - q[1] = r[2] - r[1] /\ r[2] <= q[2]
    IN [TotalCommits |-> 0, ActiveDays |-> 0, CurrentStreak |-> 0,
        LongestStreak |-> IF P = {} THEN [Days |-> 0, Start |-> ZeroTime, End |-> ZeroTime]
                          ELSE [Days |-> (best[2] - best[1]) \div 2 + 1,
                                Start |-> best[1], End |-> best[2]],
        MostActiveWeekday |-> [Weekday |-> 0, Commits |-> 0],
        PeakDay |-> [Date |-> ZeroTime, Commits |-> 0]]

\* CalculateSummary; the keys of stats are instants, timeNow() gives now
CalculateSummary(stats, now, loc) ==
    LET zero == [TotalCommits |-> 0, ActiveDays |-> 0, CurrentStreak |-> 0,
                 LongestStreak |-> [Days |-> 0, Start |-> ZeroTime, End |-> ZeroTime],
                 MostActiveWeekday |-> [Weekday |-> 0, Commits |-> 0],
                 PeakDay |-> [Date |-> ZeroTime, Commits |-> 0]]
        today == beginningOfDay(now, loc)
        P == {d \in DOMAIN stats : stats[d] > 0}
        Weekday(t) == (LocalDay(t, loc) + 1) % 7
        weekdayTotals == [wd \in 0..6 |->
                             SumOver([d \in P |-> IF Weekday(d) = wd THEN stats[d] ELSE 0], P)]
        peak == CHOOSE d \in P : \A o \in P \ {d} :
                    stats[d] > stats[o] \/ (stats[d] = stats[o] /\ d > o)
        sorted[S \in SUBSET P] ==
            IF S = {} THEN <<>>
            ELSE LET m == CHOOSE d \in S : \A o \in S : d <= o
                 IN <<m>> \o sorted[S \ {m}]
        days == sorted[P]
        current[k \in 0..Cardinality(P)] ==
            IF Get(stats, AddDate(today, 0, 0, -k, loc)) > 0 THEN 1 + current[k + 1] ELSE 0
        \* the state of the loop over days after index i
        scan[i \in 1..Len(days)] ==
            IF i = 1
            THEN [curStart |-> days[1], curLen |-> 1, longestStart |-> days[1],
                  longestEnd |-> days[1], longestLen |-> 1]
            ELSE LET s == scan[i - 1]
                     before == days[i - 1]
                     day == days[i]
                 IN IF AddDate(before, 0, 0, 1, loc) = day
                    THEN [s EXCEPT !.curLen = @ + 1]
                    ELSE IF \/ s.curLen > s.longestLen
                            \/ s.curLen = s.longestLen /\ before > s.longestEnd
                    THEN [curStart |-> day, curLen |-> 1, longestStart |-> s.curStart,
                          longestEnd |-> before, longestLen |-> s.curLen]
                    ELSE [s EXCEPT !.curStart = day, !.curLen = 1]
        f == scan[Len(days)]
        last == days[Len(days)]
        longest == IF \/ f.curLen > f.longestLen
                      \/ f.curLen = f.longestLen /\ last > f.longestEnd
                   THEN [Days |-> f.curLen, Start |-> f.curStart, End |-> last]
                   ELSE [Days |-> f.longestLen, Start |-> f.longestStart,
                         End |-> f.longestEnd]
        mostWeekday == CHOOSE wd \in 0..6 :
                           /\ \A o \in 0..6 : weekdayTotals[o] <= weekdayTotals[wd]
                           /\ \A o \in 0..(wd - 1) : weekdayTotals[o] < weekdayTotals[wd]
    IN IF P = {} THEN zero
       ELSE [TotalCommits |-> SumOver(stats, P),
             ActiveDays |-> Cardinality(P),
             CurrentStreak |-> current[0],
             LongestStreak |-> longest,
             MostActiveWeekday |-> [Weekday |-> mostWeekday,
                                    Commits |-> weekdayTotals[mostWeekday]],
             PeakDay |-> [Date |-> peak, Commits |-> stats[peak]]]

EvalSummary ==
    /\ ~eval.on
    /\ eval.fn = "CalculateSummary"
    /\ eval' = [eval EXCEPT !.on = TRUE] @@
                    [res |-> CalculateSummary(eval.stats, eval.now, eval.loc)]
    /\ UNCHANGED <<repos, cache, walk, query, call, pc, local, out, done, errs, hist,
                   prev, nq>>

EvalRank ==
    /\ ~eval.on
    /\ eval.fn = "RankRepositories"
    /\ eval' = [eval EXCEPT !.on = TRUE] @@
                    [res |-> RankRepositories(eval.statsPerRepo, eval.limit)]
    /\ UNCHANGED <<repos, cache, walk, query, call, pc, local, out, done, errs, hist,
                   prev, nq>>

\* alias tables: one group; a primary stored between blanks and a second
\* group; an empty group and a primary in capitals; two groups that share
\* a member.  Per-repository maps: no day, one commit, 1 + 2 commits, 7
\* commits, and counts that are not positive
InitPure ==
    /\ repos = <<>>
    /\ query = NoQuery
    /\ cache = <<>>
    /\ walk = NoWalk
    /\ call = NoCall
    /\ pc = <<>>
    /\ local = <<>>
    /\ out = <<>>
    /\ done = <<>>
    /\ errs = <<>>
    /\ hist = <<>>
    /\ prev = NoPrev
    /\ nq = 0
    /\ \/ \E aliases \in {<<(<<"a@x", "b@x">>)>>,
                          <<(<<" a@x ", "b@x">>), (<<"c@x">>)>>,
                          <<(<<>>), (<<"A@X", "b@x">>)>>,
                          <<(<<"a@x", "b@x">>), (<<"c@x", "b@x">>)>>},
             raw \in {"", " ", "a@x", " a@x ", "A@X", " A@X ", "b@x", "c@x", " c@x "} :
              eval = [on |-> FALSE, fn |-> "NormalizeEmail", aliases |-> aliases,
                      raw |-> raw]
       \/ \E P \in SUBSET {"r1", "r2", "r3"}, limit \in {-1, 0, 1, 2, 3} :
             \E statsPerRepo \in
                    [P -> {EmptyMap, [t \in {2} |-> 1], [t \in {2, 4} |-> t \div 2],
                           [t \in {2} |-> 7], [t \in {2, 4} |-> t - 4]}] :
                 eval = [on |-> FALSE, fn |-> "RankRepositories",
                         statsPerRepo |-> statsPerRepo, limit |-> limit]
       \/ LET num(v) == [nan |-> FALSE, v |-> v]
              floats == {num(0), num(5), num(10), num(-5), [nan |-> TRUE, v |-> 0]}
          IN \E n \in 0..3 : \E values \in [1..n -> floats] :
                 eval = [on |-> FALSE, fn |-> "CalculatePercentChanges",
                         values |-> values]
       \/ \E D \in SUBSET {Date(2024, 1, 30 + k, 0) : k \in 0..5}, hour \in {0, 1} :
             \E stats \in [D -> {0, 1, 2}] :
                 eval = [on |-> FALSE, fn |-> "CalculateSummary", stats |-> stats,
                         now |-> Date(2024, 2, 3, 0) + hour, loc |-> 0]
       \/ LET str(kind, a, b, c) == [kind |-> kind, a |-> a, b |-> b, c |-> c]
              dates == {str("", 0, 0, 0), str("iso", 2024, 1, 28), str("iso", 2024, 3, 15),
                        str("iso", 2024, 2, 30), str("ym", 2024, 3, 0),
                        str("rel", 1, 1, 0), str("rel", 1, 2, 0), str("rel", 1, 3, 0),
                        str("rel", 0, 2, 0), str("rel", 2, 0, 0), str("bad", 0, 0, 0)}
          IN \E since, until \in dates, months \in {-1, 0, 1, 2, 13},
                day \in {<<2024, 3, 31>>, <<2024, 3, 3>>, <<2024, 1, 30>>},
                hour \in {0, 1}, later \in {0, 1}, loc \in {0, 1} :
                 eval = [on |-> FALSE, fn |-> "TimeRange", since |-> since,
                         until |-> until, months |-> months,
                         now |-> Date(day[1], day[2], day[3], loc) + hour,
                         now2 |-> Date(day[1], day[2], day[3], loc) + hour + later,
                         loc |-> loc]

NextPure ==
    \/ EvalNormalizeEmail
    \/ EvalRank
    \/ EvalTimeRange
    \/ EvalPercentChanges
    \/ EvalSummary

SpecPure == InitPure /\ [][NextPure]_vars

----------------------------------------------------------------------------
(* Specification SpecStore: a caller of the cache store saves maps under   *)
(* keys, loads keys, and writes into the maps it holds.                    *)

InitStore ==
    /\ repos = <<>>
    /\ query = NoQuery
    /\ cache = <<>>
    /\ walk = NoWalk
    /\ call = NoCall
    /\ pc = <<>>
    /\ local = [m |-> EmptyMap, loaded |-> EmptyMap, mutated |-> {}]
    /\ out = <<>>
    /\ done = <<>>
    /\ errs = <<>>
    /\ hist = <<>>
    /\ prev = NoPrev
    /\ nq = 0
    /\ eval = NoEval

NextStore ==
    \/ \E key \in StoreKeys,
          m \in {[d \in {20240201} |-> 2],
                 [d \in {20240131, 20240201} |-> IF d = 20240201 THEN 1 ELSE 3]} :
           CallSaveCache(key, m)
    \/ \E key \in StoreKeys : CallLoadCache(key)
    \/ \E which \in {"m", "loaded"} : Mutate(which)

SpecStore == InitStore /\ [][NextStore]_vars

(* C16: with a non-empty alias table normalize(raw) returns the input      *)
(* unchanged when raw is empty after trimming, the trimmed primary of the  *)
(* first group with a member equal to the trimmed raw ignoring case, and   *)
(* otherwise, when no group matches, the trimmed input.                    *)
C16_NoMatchReturnsTrimmed ==
    (eval.on /\ eval.fn = "NormalizeEmail" /\ eval.aliases # <<>>) =>
        LET G == {g \in 1..Len(eval.aliases) :
                     \E j \in 1..Len(eval.aliases[g]) :
                         Lower(TrimSpace(eval.aliases[g][j])) =
                             Lower(TrimSpace(eval.raw))}
            first == CHOOSE g \in G : \A h \in G : g <= h
        IN IF TrimSpace(eval.raw) = "" THEN eval.res = eval.raw
           ELSE IF G # {} THEN eval.res = TrimSpace(eval.aliases[first][1])
           ELSE eval.res = TrimSpace(eval.raw)

(* C16, as the code has it: when no group matches, normalize(raw) returns  *)
(* the input as it was given, blanks included.                             *)
C16_NoMatchReturnsInput ==
    (eval.on /\ eval.fn = "NormalizeEmail" /\ eval.aliases # <<>>) =>
        LET G == {g \in 1..Len(eval.aliases) :
                     \E j \in 1..Len(eval.aliases[g]) :
                         Lower(TrimSpace(eval.aliases[g][j])) =
                             Lower(TrimSpace(eval.raw))}
            first == CHOOSE g \in G : \A h \in G : g <= h
        IN IF TrimSpace(eval.raw) = "" THEN eval.res = eval.raw
           ELSE IF G # {} THEN eval.res = TrimSpace(eval.aliases[first][1])
           ELSE eval.res = eval.raw

\* an identity in capitals and between blanks was mapped to a primary that
\* the table stores between blanks, in a table whose second group exists
C16_Witness ==
    /\ eval.on
    /\ eval.fn = "NormalizeEmail"
    /\ eval.raw = " A@X "
    /\ Len(eval.aliases) = 2
    /\ Len(eval.aliases[1]) = 2
    /\ eval.aliases[1][1] = " a@x "
    /\ eval.res = "a@x"

----------------------------------------------------------------------------
(* Specification SpecAlias: repository r1 receives commits authored under  *)
(* the members of an alias group and under a stranger; the user queries it *)
(* through the three entry points with the alias table of the              *)
(* configuration, filtering by one member of the group and then another.   *)

\* the user changes the identity filter of the query
Refilter(emails) ==
    /\ ~Running
    /\ query.Emails # emails
    /\ query' = [query EXCEPT !.Emails = emails]
    /\ UNCHANGED <<repos, cache, walk, call, pc, local, out, done, errs, hist, prev, nq,
                   eval>>

InitAlias ==
    /\ repos = [p \in {"r1"} |-> EmptyRepo]
    /\ query = [on |-> TRUE, Repos |-> <<"r1">>, Emails |-> <<"a@x">>, Since |-> 7,
                Until |-> 8, Branch |-> "", AllBranch |-> FALSE]
    /\ InitIdle

\* the group's primary is a@x, b@x is its secondary member; c@x is nobody's
NextAlias ==
    \/ \E email \in {"a@x", "b@x", "c@x"}, when \in {6, 9, 10} :
           Grow("main", email, when)
    \/ \E emails \in {<<"a@x">>, <<"b@x">>, <<"A@X">>} : Refilter(emails)
    \/ \E entry \in EntryPoints : Collect(entry, FALSE, <<(<<"a@x", "b@x">>)>>, 0, FALSE)
    \/ TaskAcquire(1)
    \/ TaskOpen(1, "none")
    \/ TaskWalk(1, <<"dev", "main">>)
    \/ TaskMerge(1)
    \/ TaskFail(1)
    \/ TaskExit(1)
    \/ Join

SpecAlias == InitAlias /\ [][NextAlias]_vars

(* C15: with a non-overlapping alias table, a query filtered by any single *)
(* member of an alias group counts the in-window commits authored under    *)
(* every member of the group, in per-identity mode all of them under the   *)
(* group's primary; filtering by the primary and filtering by a secondary  *)
(* member give the same result.                                            *)
C15_FilterByAnyMember ==
    /\ (Returned1 /\ call.tasks[1].err = NoErr) =>
          LET r == call.snapshot["r1"]
              group == call.opts.NormalizeEmail[1]
              member(x) == \E j \in 1..Len(group) :
                               Lower(TrimSpace(group[j])) = Lower(TrimSpace(x))
              S == {c \in Reach(r, {HeadHash(r)}) :
                       /\ member(r.commits[c].email)
                       /\ dayKeyFromTime(r.commits[c].when, call.loc) \in
                              dayKeyFromTime(call.opts.Since, call.loc) ..
                              dayKeyFromTime(call.opts.Until, call.loc)}
          IN member(call.opts.Emails[1]) =>
                 /\ CountsOf(IF call.entry = "byEmails"
                             THEN IF group[1] \in DOMAIN call.tasks[1].stats
                                  THEN call.tasks[1].stats[group[1]]
                                  ELSE EmptyMap
                             ELSE call.tasks[1].stats, r, S, call.loc)
                 /\ call.entry = "byEmails" =>
                        DOMAIN call.ret.result = IF S = {} THEN {} ELSE {group[1]}
                 /\ \A t \in Midnights(call.loc) :
                        DayTotal(call, t) =
                            Cardinality({c \in S :
                                dayKeyToTime(dayKeyFromTime(r.commits[c].when, call.loc),
                                             call.loc) = t})
    /\ (Returned2 /\ prev.entry = call.entry /\ prev.snapshot = call.snapshot) =>
          prev.ret = call.ret

\* a query filtered by the secondary member follows one filtered by the
\* primary on a repository holding an in-window commit under each member,
\* and the primary's bucket holds both
C15_Witness ==
    /\ Returned2
    /\ prev.entry = "byEmails"
    /\ call.entry = "byEmails"
    /\ prev.snapshot = call.snapshot
    /\ prev.opts.Emails = <<"a@x">>
    /\ call.opts.Emails = <<"b@x">>
    /\ {call.snapshot["r1"].commits[c].email :
           c \in 1..Len(call.snapshot["r1"].commits)} = {"a@x", "b@x"}
    /\ "a@x" \in DOMAIN call.ret.result
    /\ SumOver(call.ret.result["a@x"], DOMAIN call.ret.result["a@x"]) = 2

----------------------------------------------------------------------------
(* C17: two cache keys that differ only in the order of their identities,  *)
(* in leading or trailing blanks of any field, in empty identity entries   *)
(* or in a non-clean spelling of the same repository path map to the same  *)
(* cache file name, and a Save under one is found by a Load under the      *)
(* other.                                                                  *)
C17_SameContentSameFile ==
    (eval.on /\ eval.fn = "LoadCache") =>
        LET dir(p) == IF p \in {"r1", " r1 ", "r1/", "./r1"} THEN "r1" ELSE p
            word(x) == IF x \in {"a@x", " a@x "} THEN "a@x"
                       ELSE IF x \in {"dev", " dev "} THEN "dev" ELSE x
            times(es, e) == Cardinality({i \in 1..Len(es) : word(es[i]) = e})
            same(k1, k2) ==
                /\ dir(k1.RepoPath) = dir(k2.RepoPath)
                /\ {k1.HEADHash, -k1.HEADHash} = {k2.HEADHash, -k2.HEADHash}
                /\ \A e \in {"a@x", "b@x"} : times(k1.Emails, e) = times(k2.Emails, e)
                /\ k1.TimeRange[1] = k2.TimeRange[1]
                /\ k1.TimeRange[2] = k2.TimeRange[2]
                /\ word(k1.Branch) = word(k2.Branch)
                /\ k1.AllBranch = k2.AllBranch
            saves == {i \in 1..Len(hist) : same(hist[i].key, eval.key)}
            last == CHOOSE i \in saves : \A j \in saves : j <= i
        IN /\ \A i \in saves : CacheKeyString(hist[i].key) = CacheKeyString(eval.key)
           /\ saves # {} =>
                 /\ eval.err = ""
                 /\ eval.daily = hist[last].m
                 /\ \A i \in last + 1..Len(hist) :
                        getCachePath(hist[i].key) # getCachePath(eval.key)

\* a map saved under the plain key was found under the spelling that
\* differs from it in all four ways
C17_Witness ==
    /\ eval.on
    /\ eval.fn = "LoadCache"
    /\ Len(hist) = 1
    /\ hist[1].key.RepoPath = "r1"
    /\ hist[1].key.Emails = <<"a@x", "b@x">>
    /\ hist[1].key.Branch = "dev"
    /\ hist[1].m # EmptyMap
    /\ eval.key.RepoPath = "r1/"
    /\ eval.key.HEADHash = -1
    /\ eval.key.Emails = <<"b@x", "", " a@x ">>
    /\ eval.err = ""
    /\ eval.daily = hist[1].m

(* C18: for every cache key k and every map m of valid day keys, encoding  *)
(* m to date strings, Save(k, .), Load(k) and decoding yields a map equal  *)
(* to m and an entry whose key is the normalized k; writing into the       *)
(* caller's map after the Save, or into a loaded map after its Load, does  *)
(* not change what a later Load returns.                                   *)
C18_RoundTrip ==
    (eval.on /\ eval.fn = "LoadCache" /\ hist # <<>>
        /\ hist[Len(hist)].key = eval.key) =>
        /\ eval.err = ""
        /\ eval.daily = hist[Len(hist)].m
        /\ eval.entryKey = normalizeKey(eval.key)
        /\ eval.entryKey.Emails = <<"a@x", "b@x">> \/ eval.entryKey.Emails = <<"a@x">>
        /\ eval.entryKey.RepoPath \in {"r1", "r2"}

\* the caller wrote into the map it had saved and into the map a Load had
\* handed it, and a later Load under the key of the Save, a spelling with
\* blanks, returned the two days that were saved
C18_Witness ==
    /\ eval.on
    /\ eval.fn = "LoadCache"
    /\ hist # <<>>
    /\ hist[Len(hist)].key = eval.key
    /\ eval.key.RepoPath = " r1 "
    /\ local.mutated = {"m", "loaded"}
    /\ DOMAIN eval.daily = {20240131, 20240201}
    /\ eval.daily # local.m
    /\ eval.daily # local.loaded

----------------------------------------------------------------------------
(* Specification SpecSaves: SaveCache step by step.  Several callers save  *)
(* under one key while the key is loaded.  The cache directory maps the    *)
(* two names of the key, the cache file and cachePath + ".tmp", to files;  *)
(* a file is the sequence of the blocks written to it, and an open file    *)
(* stays writable after its name has gone.                                 *)

\* the bytes saver s marshals: block i of its entry is <<s, i>>; the
\* entries differ in length (the statistics and the time stamp differ)
EntryData(s) == [i \in 1..(IF s = 1 THEN 2 ELSE 1) |-> <<s, i>>]

SavesUnchanged ==
    UNCHANGED <<repos, walk, query, call, done, errs, hist, prev, nq, eval>>

\* os.WriteFile, first half: open cachePath + ".tmp" with O_CREATE|O_TRUNC
SaveOpen(s) ==
    /\ pc[s] = "start"
    /\ LET n == IF "tmp" \in DOMAIN cache.names THEN cache.names["tmp"]
                ELSE Len(cache.files) + 1
       IN /\ cache' = [names |-> [x \in DOMAIN cache.names \cup {"tmp"} |->
                                     IF x = "tmp" THEN n ELSE cache.names[x]],
                       files |-> [i \in 1..(IF n > Len(cache.files) THEN n
                                            ELSE Len(cache.files)) |->
                                     IF i = n THEN <<>> ELSE cache.files[i]]]
          /\ local' = [local EXCEPT ![s] = n]
    /\ pc' = [pc EXCEPT ![s] = "opened"]
    /\ UNCHANGED out
    /\ SavesUnchanged

\* os.WriteFile, second half: write the data at offset 0 and close
SaveWrite(s) ==
    /\ pc[s] = "opened"
    /\ LET old == cache.files[local[s]]
           data == EntryData(s)
       IN cache' = [cache EXCEPT !.files[local[s]] =
                        data \o SubSeq(old, Len(data) + 1, Len(old))]
    /\ pc' = [pc EXCEPT ![s] = "written"]
    /\ UNCHANGED <<local, out>>
    /\ SavesUnchanged

\* os.Rename(tmpPath, cachePath); it fails when the temporary name is gone
SaveRename(s) ==
    /\ pc[s] = "written"
    /\ IF "tmp" \in DOMAIN cache.names
       THEN /\ cache' = [cache EXCEPT !.names = [x \in {"entry"} |-> cache.names["tmp"]]]
            /\ pc' = [pc EXCEPT ![s] = "saved"]
       ELSE /\ cache' = cache
            /\ pc' = [pc EXCEPT ![s] = "remove"]
    /\ UNCHANGED <<local, out>>
    /\ SavesUnchanged

\* _ = os.Remove(tmpPath); return err
SaveRemove(s) ==
    /\ pc[s] = "remove"
    /\ cache' = [cache EXCEPT !.names = [x \in DOMAIN cache.names \ {"tmp"} |->
                                            cache.names[x]]]
    /\ pc' = [pc EXCEPT ![s] = "failed"]
    /\ UNCHANGED <<local, out>>
    /\ SavesUnchanged

\* LoadCache: os.ReadFile and json.Unmarshal; out is the set of what the
\* loads returned: not found, the entry of a saver, or a decoding error
LoadStep ==
    /\ LET data == cache.files[cache.names["entry"]]
           obs == IF "entry" \notin DOMAIN cache.names THEN [err |-> "not exist"]
                  ELSE IF \E s \in DOMAIN pc : data = EntryData(s)
                  THEN [err |-> "", entry |-> data]
                  ELSE [err |-> "unmarshal", read |-> data]
       IN out' = out \cup {obs}
    /\ UNCHANGED <<cache, pc, local>>
    /\ SavesUnchanged

InitSaves ==
    /\ repos = <<>>
    /\ query = NoQuery
    /\ cache = [names |-> <<>>, files |-> <<>>]
    /\ walk = NoWalk
    /\ call = NoCall
    /\ pc = [s \in 1..MaxSavers |-> "start"]
    /\ local = [s \in 1..MaxSavers |-> 0]
    /\ out = {}
    /\ done = <<>>
    /\ errs = <<>>
    /\ hist = <<>>
    /\ prev = NoPrev
    /\ nq = 0
    /\ eval = NoEval

NextSaves ==
    \/ \E s \in 1..MaxSavers : SaveOpen(s)
    \/ \E s \in 1..MaxSavers : SaveWrite(s)
    \/ \E s \in 1..MaxSavers : SaveRename(s)
    \/ \E s \in 1..MaxSavers : SaveRemove(s)
    \/ LoadStep

SpecSaves == InitSaves /\ [][NextSaves]_vars

(* C19: in every interleaving of two or more Saves on one key with Loads   *)
(* of that key, every Load observes not-found or one complete entry        *)
(* written by one of the Saves, never a partial or mixed entry, and once   *)
(* all Saves have finished the cache file holds one complete entry.        *)
C19_SavesAreAtomic ==
    /\ \A obs \in out : obs.err \in {"not exist", ""}
    /\ (\A s \in DOMAIN pc : pc[s] \in {"saved", "failed"}) =>
           /\ "entry" \in DOMAIN cache.names
           /\ \E s \in DOMAIN pc : cache.files[cache.names["entry"]] = EntryData(s)

----------------------------------------------------------------------------
(* C20: for every per-repository map and every limit, when the total of    *)
(* the returned rows is greater than 0 their percentages in tenths of a    *)
(* percent sum to exactly 1000, each row receiving floor(count * 1000 / T) *)
(* or that value plus one, the extra units going to the rows with the      *)
(* largest remainders (ties by larger count, then smaller path); when the  *)
(* total is 0 every percentage is 0.0.                                     *)
C20_PercentagesSumTo1000 ==
    (eval.on /\ eval.fn = "RankRepositories") =>
        LET rows == eval.res.Repositories
            T == SumOver([i \in DOMAIN rows |-> rows[i].Commits], DOMAIN rows)
            floor(i) == (rows[i].Commits * 1000) \div T
            rem(i) == rows[i].Commits * 1000 - floor(i) * T
            \* row i comes before row j when the extra units are handed out
            before(i, j) ==
                \/ rem(i) > rem(j)
                \/ rem(i) = rem(j) /\ rows[i].Commits > rows[j].Commits
                \/ /\ rem(i) = rem(j)
                   /\ rows[i].Commits = rows[j].Commits
                   /\ Rank(rows[i].Repository) < Rank(rows[j].Repository)
        IN /\ eval.res.TotalCommits = T
           /\ T = 0 => \A i \in DOMAIN rows : rows[i].Percent = 0
           /\ T > 0 =>
                 /\ SumOver([i \in DOMAIN rows |-> rows[i].Percent], DOMAIN rows) = 1000
                 /\ \A i \in DOMAIN rows : rows[i].Percent \in {floor(i), floor(i) + 1}
                 /\ \A i, j \in DOMAIN rows :
                        (rows[i].Percent = floor(i) + 1 /\ rows[j].Percent = floor(j)) =>
                            before(i, j)

\* three rows of 3, 3 and 1 commits: 428, 428 and 142 tenths leave two
\* units; one goes to the row of 1 commit, which has the largest remainder,
\* the other to the row of 3 commits with the smaller path
C20_Witness ==
    /\ eval.on
    /\ eval.fn = "RankRepositories"
    /\ Len(eval.res.Repositories) = 3
    /\ eval.res.TotalCommits = 7
    /\ eval.res.Repositories[1] = [Repository |-> "r1", Commits |-> 3, Percent |-> 429]
    /\ eval.res.Repositories[2] = [Repository |-> "r3", Commits |-> 3, Percent |-> 428]
    /\ eval.res.Repositories[3] = [Repository |-> "r2", Commits |-> 1, Percent |-> 143]

----------------------------------------------------------------------------
(* C21: RankRepositories returns the rows ordered by commit total          *)
(* descending, ties by path ascending; with limit > 0 only the first limit *)
(* rows of that order are kept, otherwise all; TotalCommits is the sum of  *)
(* the returned rows' totals and is the denominator of their percentages.  *)
C21_RankedAndLimited ==
    (eval.on /\ eval.fn = "RankRepositories") =>
        LET in == eval.statsPerRepo
            rows == eval.res.Repositories
            count(p) == SumOver([t \in DOMAIN in[p] |-> IF in[p][t] > 0 THEN in[p][t] ELSE 0],
                                DOMAIN in[p])
            n == Cardinality(DOMAIN in)
            kept == {rows[i].Repository : i \in DOMAIN rows}
            T == SumOver([i \in DOMAIN rows |-> rows[i].Commits], DOMAIN rows)
            \* path p is ranked before path q
            ahead(p, q) == \/ count(p) > count(q)
                           \/ count(p) = count(q) /\ Rank(p) < Rank(q)
        IN /\ DOMAIN rows = 1..Len(rows)
           /\ kept \subseteq DOMAIN in
           /\ Cardinality(kept) = Len(rows)
           /\ \A i \in DOMAIN rows : rows[i].Commits = count(rows[i].Repository)
           /\ \A i, j \in DOMAIN rows :
                  i < j => ahead(rows[i].Repository, rows[j].Repository)
           /\ Len(rows) = IF eval.limit > 0 /\ eval.limit < n THEN eval.limit ELSE n
           /\ \A p \in kept, q \in DOMAIN in \ kept : ahead(p, q)
           /\ eval.res.TotalCommits = T
           /\ T > 0 =>
                 \A i \in DOMAIN rows :
                     LET floor == (rows[i].Commits * 1000) \div T
                     IN rows[i].Percent \in {floor, floor + 1}

\* three repositories of 1, 7 and 1 commits under limit 2: the row of 7
\* commits, then the row of 1 commit with the smaller path; the total is 8
C21_Witness ==
    /\ eval.on
    /\ eval.fn = "RankRepositories"
    /\ eval.limit = 2
    /\ DOMAIN eval.statsPerRepo = {"r1", "r2", "r3"}
    /\ eval.res.TotalCommits = 8
    /\ Len(eval.res.Repositories) = 2
    /\ eval.res.Repositories[1] = [Repository |-> "r2", Commits |-> 7, Percent |-> 875]
    /\ eval.res.Repositories[2] = [Repository |-> "r1", Commits |-> 1, Percent |-> 125]

----------------------------------------------------------------------------
(* C22: whenever TimeRange returns without error, Since <= Until and both  *)
(* are the midnight of their day in the zone of now; it fails with the     *)
(* out-of-order error exactly when both bounds resolve and the resolved    *)
(* Since is after the resolved Until; whenever since is omitted a result   *)
(* requires months >= 1, and Since is then a Sunday that is no later than  *)
(* the date months before the anchor day and less than 7 days before it.   *)
C22_TimeRangeOrdered ==
    (eval.on /\ eval.fn = "TimeRange") =>
        LET r == eval.res
            loc == eval.loc
            ps == ParseDate(eval.since, eval.now2, loc)
            pu == ParseDate(eval.until, eval.now2, loc)
            resolves == /\ eval.since.kind # "" => ps.err = ""
                        /\ eval.until.kind # "" => pu.err = ""
                        /\ eval.since.kind = "" => eval.months >= 1
            until == IF eval.until.kind # "" THEN pu.t ELSE beginningOfDay(eval.now, loc)
            shifted == AddDate(until, 0, -eval.months, 0, loc)
            since == IF eval.since.kind # "" THEN ps.t
                     ELSE CHOOSE t \in {shifted - 2 * k : k \in 0..6} :
                              LocalDay(t, loc) % 7 = 6
        IN /\ r.err = "" =>
                 /\ r.start <= r.end
                 /\ (r.start + loc) % 2 = 0
                 /\ (r.end + loc) % 2 = 0
           /\ r.err = "since must be <= until" <=> (resolves /\ since > until)
           /\ (r.err = "" /\ eval.since.kind = "") =>
                 /\ eval.months >= 1
                 /\ LocalDay(r.start, loc) % 7 = 6
                 /\ r.start <= shifted
                 /\ shifted - r.start < 14

\* only until is given, 2024-03-15, with one month: 2024-02-15 is a
\* Thursday and Since is Sunday 2024-02-11
C22_Witness ==
    /\ eval.on
    /\ eval.fn = "TimeRange"
    /\ eval.since.kind = ""
    /\ eval.until = [kind |-> "iso", a |-> 2024, b |-> 3, c |-> 15]
    /\ eval.months = 1
    /\ eval.loc = 1
    /\ eval.res = [err |-> "", start |-> Date(2024, 2, 11, 1), end |-> Date(2024, 3, 15, 1)]

----------------------------------------------------------------------------
(* C23: the change from 0 to 0 is defined and is 0; the change from 0 to   *)
(* a value other than 0 is undefined; the change from any value other than *)
(* 0 is defined and is (to - from) / from * 100; n >= 2 values give        *)
(* exactly n - 1 changes, the i-th from value i to value i + 1.            *)
C23_PercentChangeDefined ==
    (eval.on /\ eval.fn = "CalculatePercentChanges" /\ Len(eval.values) >= 2) =>
        LET v == eval.values
            zero(x) == ~x.nan /\ x.v = 0
        IN /\ Len(eval.res) = Len(v) - 1
           /\ \A i \in 1..(Len(v) - 1) :
                 LET from == v[i]
                     to == v[i + 1]
                     c == eval.res[i]
                 IN /\ (zero(from) /\ zero(to)) =>
                          c.Defined /\ ~c.Percent.nan /\ c.Percent.num = 0
                    /\ (zero(from) /\ ~zero(to)) => ~c.Defined
                    /\ ~zero(from) => c.Defined
                    /\ (~from.nan /\ ~to.nan /\ ~zero(from)) =>
                          /\ ~c.Percent.nan
                          /\ c.Percent.num * from.v = (to.v - from.v) * 100 * c.Percent.den

\* the values 0, 5, 10: the first change is undefined, the second is 100
C23_Witness ==
    /\ eval.on
    /\ eval.fn = "CalculatePercentChanges"
    /\ Len(eval.values) = 3
    /\ eval.values[1].v = 0 /\ ~eval.values[1].nan
    /\ eval.values[2].v = 5
    /\ eval.values[3].v = 10
    /\ Len(eval.res) = 2
    /\ ~eval.res[1].Defined
    /\ eval.res[2].Defined
    /\ eval.res[2].Percent = [nan |-> FALSE, num |-> 500, den |-> 5]

----------------------------------------------------------------------------
(* C24: for every day-count map with a day of count > 0, LongestStreak is  *)
(* a run of consecutive calendar days of count > 0 that cannot be extended *)
(* at either end; no such run is longer, and of the runs of that length it *)
(* is the one that ends last; Start and End are its first and last day and *)
(* Days = End - Start + 1.  Without a day of count > 0 the streak is the   *)
(* zero value.                                                             *)
C24_LongestStreakIsLatestLongestRun ==
    (eval.on /\ eval.fn = "CalculateSummary") =>
        LET stats == eval.stats
            L == eval.res.LongestStreak
            active(t) == t \in DOMAIN stats /\ stats[t] > 0
            dayOf(t) == LocalDay(t, eval.loc)
            \* the days a..b are all active and the days next to them are not
            run(a, b) == /\ a <= b
                         /\ \A t \in DOMAIN stats : dayOf(t) \in a..b => active(t)
                         /\ \A n \in a..b : \E t \in DOMAIN stats : dayOf(t) = n
                         /\ ~\E t \in DOMAIN stats : active(t) /\ dayOf(t) \in {a - 1, b + 1}
            N == {dayOf(t) : t \in DOMAIN stats}
        IN IF \E t \in DOMAIN stats : active(t)
           THEN /\ run(dayOf(L.Start), dayOf(L.End))
                /\ L.Start \in DOMAIN stats /\ L.End \in DOMAIN stats
                /\ L.Days = dayOf(L.End) - dayOf(L.Start) + 1
                /\ \A a, b \in N :
                       run(a, b) => \/ b - a + 1 < L.Days
                                    \/ b - a + 1 = L.Days /\ b <= dayOf(L.End)
           ELSE L = [Days |-> 0, Start |-> ZeroTime, End |-> ZeroTime]

\* commits on 30 and 31 January and on 2 and 3 February, none on 1
\* February: two runs of two days, the later one is reported
C24_Witness ==
    /\ eval.on
    /\ eval.fn = "CalculateSummary"
    /\ DOMAIN eval.stats = {Date(2024, 1, 30, 0), Date(2024, 1, 31, 0), Date(2024, 2, 1, 0),
                            Date(2024, 2, 2, 0), Date(2024, 2, 3, 0)}
    /\ eval.stats[Date(2024, 2, 1, 0)] = 0
    /\ \A t \in DOMAIN eval.stats : t # Date(2024, 2, 1, 0) => eval.stats[t] = 1
    /\ eval.res.LongestStreak = [Days |-> 2, Start |-> Date(2024, 2, 2, 0),
                                 End |-> Date(2024, 2, 3, 0)]

----------------------------------------------------------------------------
(* C25: under scope All, for every commit graph, merge commits and every   *)
(* order of the branch tips included, the map of the walker that stops an  *)
(* iterator at the first commit seen before equals the map of the walker   *)
(* that skips such a commit and goes on; the comparison is made where no   *)
(* commit is dated before the start day, so that the second walker         *)
(* traverses the whole ancestry of every tip.                              *)
C25_PruningPreservesResult ==
    (/\ walk.on
     /\ walk.branch.AllBranches
     /\ walk.res.err = NoErr
     /\ walk.normalizeEmail = <<>>
     /\ \A c \in 1..Len(repos[walk.path].commits) :
            dayKeyFromTime(repos[walk.path].commits[c].when, walk.loc) >= walk.startDayKey) =>
        walk.res.stats =
            collectRepoAllBranchesWithoutPruning(repos[walk.path], walk.path,
                walk.startDayKey, walk.endDayKey, walk.loc, walk.emailSet, walk.order)

----------------------------------------------------------------------------
(* C26: in every state of a run at most maxConcurrency repository tasks    *)
(* have started their cache lookup or walk without having released their   *)
(* slot, also with more repositories than slots; a task has touched        *)
(* nothing before it holds a slot, and its result or error is recorded     *)
(* before it gives the slot up.                                            *)
C26_AtMostPTasksAtWork ==
    Running =>
        LET recorded(i) == IF local[i].err = NoErr THEN local[i].path \in Range(done)
                           ELSE local[i].err \in Range(errs)
            atWork == {i \in DOMAIN pc : pc[i] \notin {"spawned", "done"}}
        IN /\ Cardinality(atWork) <= maxConcurrency
           /\ \A i \in DOMAIN pc :
                 /\ pc[i] = "spawned" =>
                        /\ local[i] = NewLocal(call.opts.Repos[i])
                        /\ local[i].path \notin Range(done)
                 /\ pc[i] = "done" => recorded(i)
           /\ Len(done) + Len(errs) =
                  Cardinality({i \in DOMAIN pc : pc[i] \in {"exit", "advance", "done"}})

\* three repositories and two slots: two tasks are at work, one of them has
\* walked, and the third waits for a slot with nothing done
C26_Witness ==
    /\ Running
    /\ Len(call.opts.Repos) > maxConcurrency
    /\ Cardinality({i \in DOMAIN pc : pc[i] \notin {"spawned", "done"}}) = maxConcurrency
    /\ \E i \in DOMAIN pc : pc[i] = "merge" /\ local[i].walked
    /\ \E i \in DOMAIN pc : pc[i] = "spawned"

(* C27: with a progress bar (more than one repository, on a terminal),     *)
(* bar.Add(1) is called once per repository task, after the task's result  *)
(* or error has been recorded, for a failed task as for a successful one;  *)
(* no two calls of bar.Add overlap; bar.Finish is called once, after every *)
(* bar.Add and by the time the entry point has returned; without a bar     *)
(* neither is called; the returned result and errors are those of the same *)
(* call with the other value of the bar.                                   *)
C27_ProgressPerTask ==
    call.on =>
        LET recorded(i) == IF local[i].err = NoErr THEN local[i].path \in Range(done)
                           ELSE local[i].err \in Range(errs)
            other == Sequential([call EXCEPT !.bar = ~@])
        IN /\ ~call.bar => hist.barAdds = 0 /\ ~hist.finished
           /\ (call.bar /\ Running) =>
                 /\ ~hist.finished
                 /\ Cardinality({i \in DOMAIN pc : pc[i] = "advance"}) <= 1
                 /\ hist.barAdds = Cardinality({i \in DOMAIN pc : pc[i] = "done"})
                 /\ \A i \in DOMAIN pc : pc[i] \in {"advance", "done"} => recorded(i)
           /\ (call.bar /\ Returned1) =>
                 /\ hist.finished
                 /\ hist.barAdds = Len(call.opts.Repos)
           /\ ~Running => \A i \in DOMAIN pc : pc[i] # "advance"
           /\ (Returned1 /\ ValidCall(call)) =>
                 /\ call.ret.nil = other.nil
                 /\ call.ret.result = other.result
                 /\ Range(call.ret.err) = Range(other.err)

\* a call with a bar returned after three calls of bar.Add, one of them
\* for a task that failed, and bar.Finish
C27_Witness ==
    /\ Returned1
    /\ call.bar
    /\ hist.barAdds = 3
    /\ hist.finished
    /\ Len(call.ret.err) = 1
    /\ ~call.ret.nil
    /\ call.ret.result # EmptyMap

----------------------------------------------------------------------------
(* C28: starting from an empty cache directory, a Global collection with   *)
(* caching enabled returns the result map of the same collection with      *)
(* caching disabled and fails exactly the same repositories, for every     *)
(* repository state and every traversal scope.                             *)
C28_ColdCacheChangesNothing ==
    (/\ Returned1
     /\ ValidCall(call)
     /\ call.entry = "global"
     /\ call.opts.UseCache
     /\ hist.cache0 = <<>>) =>
        LET uncached == Sequential([call EXCEPT !.opts.UseCache = FALSE])
        IN /\ call.ret.nil = uncached.nil
           /\ call.ret.result = uncached.result
           /\ {call.ret.err[i].path : i \in DOMAIN call.ret.err} =
                  {uncached.err[i].path : i \in DOMAIN uncached.err}

----------------------------------------------------------------------------
(* Specification SpecRequery: a repository that does not change is queried *)
(* twice through the Global entry point with the cache enabled; from one   *)
(* query to the next the alias table of the configuration and the time     *)
(* zone of the window may change.  The instants Since and Until fall on    *)
(* 2024-02-01 and 2024-02-02 in both zones.                                *)

\* r1 holds one or two commits on main, by a@x or b@x, dated at noon of
\* 2024-01-31 or of 2024-02-01 in zone 0, which is the following midnight in
\* zone 1; the query follows HEAD and may be filtered by a@x
InitRequery ==
    /\ \E n \in 1..2 : \E a \in [1..n -> {<<"a@x", 5>>, <<"b@x", 7>>, <<"a@x", 7>>}] :
           repos = [p \in {"r1"} |->
                       [kind |-> "ok",
                        commits |-> [i \in 1..n |->
                                        NewCommit(IF i = 1 THEN <<>> ELSE <<i - 1>>,
                                                  a[i][1], a[i][2])],
                        branches |-> [b \in BranchNames |->
                                         IF b = "main" THEN n ELSE NoHash],
                        head |-> "main"]]
    /\ \E emails \in {<<>>, <<"a@x">>} :
           query = [on |-> TRUE, Repos |-> <<"r1">>, Emails |-> emails, Since |-> 6,
                    Until |-> 8, Branch |-> "", AllBranch |-> FALSE]
    /\ InitIdle

NextRequery ==
    \/ \E normalizeEmail \in {<<>>, <<(<<"a@x", "b@x">>)>>}, loc \in {0, 1} :
           Collect("global", TRUE, normalizeEmail, loc, FALSE)
    \/ TaskAcquire(1)
    \/ TaskOpen(1, "none")
    \/ TaskWalk(1, <<"dev", "main">>)
    \/ TaskSave(1, "none")
    \/ TaskMerge(1)
    \/ TaskExit(1)
    \/ Join

SpecRequery == InitRequery /\ [][NextRequery]_vars

(* C29: whenever a Global repository task is served from the cache, the    *)
(* map it returns is the map the walker would compute at that moment for   *)
(* the same call, whatever queries were made before on the unchanged       *)
(* repository, queries under another alias table or another time zone with *)
(* the same canonical identity set and the same formatted window included. *)
C29_CacheHitEqualsWalk ==
    Returned1 =>
        \A i \in DOMAIN call.tasks :
            LET t == call.tasks[i]
            IN (call.entry = "global" /\ t.load = "hit") =>
                   t.stats = collectRepoFromRepository(repos[t.path], t.path,
                                 call.startDayKey, call.endDayKey, call.loc,
                                 call.emailSet, call.branch, call.opts.NormalizeEmail,
                                 <<"dev", "main">>).stats

----------------------------------------------------------------------------
(* Specification SpecFair: one valid query over no repository, one         *)
(* repository or three (more than maxConcurrency) is run through an entry  *)
(* point; a goroutine that can take a step is eventually run.              *)

InitFair ==
    /\ \E r1, r2 \in {RepoFamily.missing, OneCommitRepo} :
           repos = [p \in TaskPaths |-> IF p = "r1" THEN r1
                                        ELSE IF p = "r2" THEN r2
                                        ELSE OneCommitRepo]
    /\ \E list \in {<<>>, <<"r1">>, <<"r1", "r2", "r3">>} :
           query = [on |-> TRUE, Repos |-> list, Emails |-> <<>>, Since |-> 7,
                    Until |-> 8, Branch |-> "", AllBranch |-> FALSE]
    /\ InitIdle

NextFair ==
    \/ \E entry \in {"global", "perRepo"} : nq = 0 /\ Collect(entry, TRUE, <<>>, 0, TRUE)
    \/ \E i \in 1..Cardinality(TaskPaths) : TaskAcquire(i)
    \/ \E i \in 1..Cardinality(TaskPaths) : TaskOpen(i, "none")
    \/ \E i \in 1..Cardinality(TaskPaths) : TaskWalk(i, <<"dev", "main">>)
    \/ \E i \in 1..Cardinality(TaskPaths) : TaskSave(i, "none")
    \/ \E i \in 1..Cardinality(TaskPaths) : TaskMerge(i)
    \/ \E i \in 1..Cardinality(TaskPaths) : TaskFail(i)
    \/ \E i \in 1..Cardinality(TaskPaths) : TaskAdvance(i)
    \/ \E i \in 1..Cardinality(TaskPaths) : TaskExit(i)
    \/ Join

SpecFair == InitFair /\ [][NextFair]_vars /\ WF_vars(NextFair)

(* C30: for any number N of repositories, N above the pool size included,  *)
(* under fair scheduling every run of the orchestrator returns; at return  *)
(* every repository of the list is accounted for exactly once, either in   *)
(* the list of merged repositories or by exactly one error of the joined   *)
(* error, so merged plus errors is N; with N = 0 the result is empty and    *)
(* the error is nil.                                                       *)
C30_EveryRunReturnsAccounted ==
    Running ~>
        (/\ Returned1
         /\ LET N == Len(call.opts.Repos)
                ok == {i \in DOMAIN call.tasks : call.tasks[i].err = NoErr}
                failed == DOMAIN call.tasks \ ok
            IN /\ Len(call.tasks) = N
               /\ \A i \in 1..N : call.tasks[i].path = call.opts.Repos[i]
               /\ Cardinality(ok) + Len(call.ret.err) = N
               /\ NoDup(call.ret.err)
               /\ \A i \in failed :
                      /\ call.tasks[i].err \in Range(call.ret.err)
                      /\ call.tasks[i].err.path = call.opts.Repos[i]
               /\ \A i \in ok, k \in DOMAIN call.ret.err :
                      call.ret.err[k].path # call.opts.Repos[i]
               /\ call.entry = "perRepo" =>
                      DOMAIN call.ret.result = {call.opts.Repos[i] : i \in ok}
               /\ N = 0 => /\ ~call.ret.nil
                           /\ call.ret.result = EmptyMap
                           /\ call.ret.err = <<>>)

\* a run over three repositories with two slots returned with two errors
\* and one repository merged
C30_Witness ==
    /\ Returned1
    /\ Len(call.opts.Repos) = 3
    /\ Len(call.opts.Repos) > maxConcurrency
    /\ Len(call.ret.err) = 2
    /\ Cardinality({i \in DOMAIN call.tasks : call.tasks[i].err = NoErr}) = 1
    /\ ~call.ret.nil

============================================================================
